---------------------------- MODULE Spec2Model ----------------------------
(***************************************************************************)
(* Shimmy-DS, dreamspiral: the Growth Pass Orchestrator with its ZC gates  *)
(* (recursive_growth_pass.py), the Guard Chain and the Constraint Genome   *)
(* extractor (recursive_expander.py) and the Pathogen Scanner              *)
(* (drift_detector.py).                                                    *)
(*                                                                         *)
(* Numbers: the code computes quality and health in binary floating point. *)
(* The model computes them exactly, in thousandths (1000 = 1.0); an        *)
(* iteration's average quality is kept in units of 1/AvgScale so that the  *)
(* average of one, two or three scores is an integer.                      *)
(***************************************************************************)
EXTENDS Integers, Sequences, FiniteSets, TLC

VARIABLES
    \* ---- RecursiveGrowthPass (recursive_growth_pass.py) ----
    pc,               \* where the caller of the orchestrator is
    env,              \* ric_integration / drift_detector / elegance_modules
    zc_gates,         \* gate name -> remaining budget (empty before a session)
    recursion_state,  \* RecursionState
    growth_metrics,   \* GrowthMetrics
    iteration,        \* execute_growth_pass: local `iteration`
    expansions,       \* execute_growth_pass: local `expansions`
    max_iterations,   \* execute_growth_pass: argument
    last,             \* what the latest loop step did (observation only)
    \* ---- ZCGate alone ----
    gate,
    \* ---- RecursiveExpander.guard_chain_passes ----
    guard,
    \* ---- DriftDetector ----
    scan,
    \* ---- RecursiveExpander.extract_beat_ligands ----
    extractor,
    \* ---- two RecursiveGrowthPass instances and the scanner they share ----
    sessions,
    \* ---- RecursiveInquiryEngine (inquiry_bank.py) ----
    rie

passVars == <<pc, env, zc_gates, recursion_state, growth_metrics, iteration,
              expansions, max_iterations, last>>
otherThanPass == <<gate, guard, scan, extractor, sessions, rie>>
vars == <<pc, env, zc_gates, recursion_state, growth_metrics, iteration,
          expansions, max_iterations, last, gate, guard, scan, extractor,
          sessions, rie>>

-----------------------------------------------------------------------------
(* Bounds of the model *)

\* largest max_iterations a caller passes
MaxIter == 5

\* largest max_iterations of each of two concurrent sessions
MaxTwoIter == 2
MaxLongIter == 8
MaxDrainIter == 51

\* most validations one RecursiveExpander records
MaxValidations == 2

\* most scans one DriftDetector is asked for
MaxScans == 2
MaxInquiries == 3

-----------------------------------------------------------------------------
(* Helpers *)

Min(a, b) == IF a < b THEN a ELSE b
Max(a, b) == IF a > b THEN a ELSE b
Abs(a) == IF a < 0 THEN -a ELSE a

RECURSIVE SumSeq(_)
SumSeq(s) == IF s = <<>> THEN 0 ELSE Head(s) + SumSeq(Tail(s))

\* s[-k:]
LastN(s, k) == IF Len(s) <= k THEN s ELSE SubSeq(s, Len(s) - k + 1, Len(s))

Range(s) == {s[i] : i \in 1..Len(s)}

\* quality scores are thousandths; averages are in 1/AvgScale
AvgScale == 1000 * 6

-----------------------------------------------------------------------------
(* drift_detector.py : the Pathogen Scanner *)

\* the fingerprints _initialize_pathogen_library builds, in insertion order
PathogenOrder == <<"ancestral_drift", "sentimentality_bloom",
                   "hallucinated_precision", "thematic_mutation",
                   "time_jump_parasite", "scope_creep">>
Pathogens == Range(PathogenOrder)

\* PathogenFingerprint.threshold, in halves (2.0, 3.0, 2.5, 2.5, 2.0, 3.0)
Threshold2(p) ==
    CASE p = "ancestral_drift"        -> 4
      [] p = "sentimentality_bloom"   -> 6
      [] p = "hallucinated_precision" -> 5
      [] p = "thematic_mutation"      -> 5
      [] p = "time_jump_parasite"     -> 4
      [] p = "scope_creep"            -> 6

\* PathogenFingerprint.calculate_severity; score2 is the weighted match
\* count (sum of count * weight, weights being multiples of 0.5), in halves
CalculateSeverity(score2, threshold2) ==
    IF score2 >= threshold2 * 3 THEN "CRITICAL"
    ELSE IF score2 >= threshold2 * 2 THEN "HIGH"
    ELSE IF score2 >= threshold2 THEN "MEDIUM"
    ELSE "LOW"

\* _scan_for_pathogen: no detection without a match or at severity LOW
ScanForPathogen(score2, p) ==
    LET severity == CalculateSeverity(score2, Threshold2(p))
    IN IF score2 = 0 \/ severity = "LOW" THEN "NONE" ELSE severity

\* scan_for_drift: the severity_impact table, in thousandths
SeverityImpact(severity) ==
    CASE severity = "LOW"      -> 100
      [] severity = "MEDIUM"   -> 250
      [] severity = "HIGH"     -> 400
      [] severity = "CRITICAL" -> 700
      [] OTHER                 -> 100

\* scan_for_drift: the severities detected, in library order
RECURSIVE DetectionsFrom(_, _)
DetectionsFrom(scores, order) ==
    IF order = <<>> THEN <<>>
    ELSE LET d == ScanForPathogen(scores[Head(order)], Head(order))
             rest == DetectionsFrom(scores, Tail(order))
         IN IF d = "NONE" THEN rest ELSE <<d>> \o rest

RECURSIVE PenaltySum(_)
PenaltySum(detections) ==
    IF detections = <<>> THEN 0
    ELSE SeverityImpact(Head(detections)) + PenaltySum(Tail(detections))

\* a health score that is not floored
OverallScoreUnfloored(detections) == 1000 - PenaltySum(detections)

\* scan_for_drift: overall_score = max(0.0, 1.0 - penalties)
OverallScore(detections) == Max(0, 1000 - PenaltySum(detections))

CountOf(detections, severity) ==
    Cardinality({i \in 1..Len(detections) : detections[i] = severity})

\* a vote without the branch for moderate health concerns
GenerateRicVoteLenient(detections, health_score) ==
    LET critical_count == CountOf(detections, "CRITICAL")
        high_count == CountOf(detections, "HIGH")
    IN IF critical_count >= 2 \/ health_score < 300 THEN "Block"
       ELSE IF critical_count >= 1 \/ high_count >= 2 \/ health_score < 500
            THEN "Suggest"
       ELSE "Continue"

\* _generate_ric_vote
GenerateRicVote(detections, health_score) ==
    LET critical_count == CountOf(detections, "CRITICAL")
        high_count == CountOf(detections, "HIGH")
    IN IF critical_count >= 2 \/ health_score < 300 THEN "Block"
       ELSE IF critical_count >= 1 \/ high_count >= 2 \/ health_score < 500
            THEN "Suggest"
       ELSE IF Len(detections) = 0 /\ health_score > 900 THEN "Continue"
       ELSE IF health_score < 700 THEN "Suggest"
       ELSE "Continue"

\* scan_for_drift on a text whose weighted match counts are `scores`
ScanForDrift(scores) ==
    LET detections == DetectionsFrom(scores, PathogenOrder)
        overall == OverallScore(detections)
    IN [pathogens_detected |-> detections,
        overall_health_score |-> overall,
        ric_vote_recommendation |-> GenerateRicVote(detections, overall)]

-----------------------------------------------------------------------------
(* recursive_expander.py : ligands, genomes, candidates, the Guard Chain *)

\* A text is described by what the code reads from it:
\*   id        which text it is
\*   len       len(content)
\*   entities  re.findall(r'\b[A-Z][a-z]+\b', content)
\*   charWord  it contains "he", "she", "they", "character" or "person"
\*   themeWord it contains "meaning", "significance", "represents", "symbolizes"
\*   metaphor  it matches one of the obscuring_patterns
\*   scores    per pathogen, its weighted match count in halves

\* str.lower on the words of the model
Lower(w) ==
    CASE w = "Maria"   -> "maria"
      [] w = "John"    -> "john"
      [] w = "Kitchen" -> "kitchen"
      [] w = "She"     -> "she"
      [] w = "To"      -> "to"
      [] OTHER         -> w

\* _is_allowed_generic_entity
GenericEntities == {"He", "She", "They", "It", "This", "That", "The", "A", "An",
                    "Someone", "Something", "Everyone", "Everything",
                    "Nobody", "Nothing"}
IsAllowedGenericEntity(entity) == entity \in GenericEntities

\* Ligand (dataclass); obligation_anchor "None" is None
Ligand(id, type, content, scope_constraints, emotional_vector, obligation_anchor, depth_level) ==
    [id |-> id, type |-> type, content |-> content,
     scope_constraints |-> scope_constraints,
     emotional_vector |-> emotional_vector,
     obligation_anchor |-> obligation_anchor, depth_level |-> depth_level]

\* Ligand.__post_init__ raises ValueError: the content is blank or the depth
\* level is not one of 1..5
PostInitRaises(ligand) ==
    ligand.content \in {"", " "} \/ ligand.depth_level < 1 \/ ligand.depth_level > 5

\* target_ligand = None
NoLigand == [id |-> "None", type |-> "None", obligation_anchor |-> "None",
             depth_level |-> 0]

\* _check_entity_scope
CheckEntityScope(expansion, genome) ==
    LET authorized == {Lower(e) : e \in Range(genome.scope_entities)}
        unauthorized == {e \in expansion.content.entities :
                            /\ Lower(e) \notin authorized
                            /\ ~IsAllowedGenericEntity(e)}
    IN IF unauthorized # {} THEN "fail_entity_scope" ELSE "pass"

\* _check_proof_anchor
CheckProofAnchor(expansion, genome) ==
    IF expansion.target_ligand = NoLigand THEN "fail_proof_anchor"
    ELSE IF /\ expansion.obligations_addressed = <<>>
            /\ expansion.target_ligand.obligation_anchor = "None"
         THEN "fail_proof_anchor"
    ELSE IF \E i \in 1..Len(expansion.obligations_addressed) :
                expansion.obligations_addressed[i] \notin Range(genome.obligations)
         THEN "fail_proof_anchor"
    ELSE "pass"

\* _is_complementary_emotion
\* a table of pairs that also lets a positive genome turn negative
ComplementaryPairsWithReversal ==
    {<<"negative", "neutral">>, <<"neutral", "positive">>,
     <<"positive", "neutral">>, <<"neutral", "negative">>,
     <<"positive", "negative">>}

ComplementaryPairs == {<<"negative", "neutral">>, <<"neutral", "positive">>,
                       <<"positive", "neutral">>, <<"neutral", "negative">>}
IsComplementaryEmotion(required, actual) == <<required, actual>> \in ComplementaryPairs

\* _check_emotional_vector
CheckEmotionalVector(expansion, genome) ==
    IF expansion.emotional_tone = "neutral" THEN "pass"
    ELSE IF expansion.emotional_tone = genome.tone_vector THEN "pass"
    ELSE IF IsComplementaryEmotion(genome.tone_vector, expansion.emotional_tone)
         THEN "pass"
    ELSE "fail_emotional_vector"

\* _metaphor_components_related: the placeholder answers True
MetaphorComponentsRelated(content) == TRUE

\* _contains_obscuring_metaphors
ContainsObscuringMetaphors(content) ==
    content.metaphor /\ ~MetaphorComponentsRelated(content)

\* _check_surface_depth_congruence
CheckSurfaceDepthCongruence(expansion, genome) ==
    IF Abs(expansion.proposed_depth - expansion.target_ligand.depth_level) > 2
    THEN "fail_surface_depth"
    ELSE IF ContainsObscuringMetaphors(expansion.content) THEN "fail_surface_depth"
    ELSE "pass"

\* a chain that asks the proof anchor before the entity scope
GuardChainAnchorFirst(expansion, genome) ==
    LET anchor_result == CheckProofAnchor(expansion, genome)
    IN IF anchor_result # "pass" THEN anchor_result
       ELSE LET scope_result == CheckEntityScope(expansion, genome)
            IN IF scope_result # "pass" THEN scope_result
               ELSE LET emotion_result == CheckEmotionalVector(expansion, genome)
                    IN IF emotion_result # "pass" THEN emotion_result
                       ELSE CheckSurfaceDepthCongruence(expansion, genome)

\* guard_chain_passes
GuardChainPasses(expansion, genome) ==
    LET scope_result == CheckEntityScope(expansion, genome)
    IN IF scope_result # "pass" THEN scope_result
       ELSE LET anchor_result == CheckProofAnchor(expansion, genome)
            IN IF anchor_result # "pass" THEN anchor_result
               ELSE LET emotion_result == CheckEmotionalVector(expansion, genome)
                    IN IF emotion_result # "pass" THEN emotion_result
                       ELSE CheckSurfaceDepthCongruence(expansion, genome)

-----------------------------------------------------------------------------
(* recursive_expander.py : extract_beat_ligands *)

\* A seed and a beat are described by what the regular expressions of the
\* extractor find in f"{seed} {beat}":
\*   obligation_matches  re.findall of each of the five obligation_patterns
\*   names               re.findall(r'\b[A-Z][a-z]+\b', combined_text)
\*   tone_words          the words of the three tone lists it contains
\*   location_matches    re.findall of each of the two location_patterns,
\*                       the second with its two groups
\*   ligand_matches      per ligand type and pattern, group(0) of re.finditer
NoMatches == <<<<>>, <<>>, <<>>>>

LigandTypeOrder == <<"character_action", "emotional_state", "setting_detail",
                     "conflict_tension", "dialogue_subtext", "theme_resonance">>

NoLigandMatches == [t \in Range(LigandTypeOrder) |-> NoMatches]

Findings(seed, beat) ==
    CASE seed = "waiting" /\ beat = "decide" ->
           \* "Maria waited in the kitchen with hope. She must decide. She
           \*  must decide. Maria will leave the house."
           [obligation_matches |-> <<<<"decide", "decide">>, <<>>, <<>>, <<>>,
                                     <<"leave the house">>>>,
            names |-> <<"Maria", "She", "She", "Maria">>,
            tone_words |-> {"hope"},
            location_matches |-> <<<<"kitchen", "house">>, <<<<"in", "kitchen">>>>>>,
            ligand_matches |->
                [NoLigandMatches EXCEPT
                   !["emotional_state"] = <<<<"hope">>, <<>>, <<>>>>,
                   !["setting_detail"] = <<<<"the house">>, <<>>, <<>>>>]]
      [] seed = "waiting" /\ beat = "leave" ->
           \* "Maria waited in the kitchen with hope. John said she should
           \*  leave. Maria felt fear."
           [obligation_matches |-> <<<<>>, <<>>, <<>>, <<"leave">>, <<>>>>,
            names |-> <<"Maria", "John", "Maria">>,
            tone_words |-> {"fear", "hope"},
            location_matches |-> <<<<"kitchen">>, <<<<"in", "kitchen">>>>>>,
            ligand_matches |->
                [NoLigandMatches EXCEPT
                   !["character_action"] = <<<<"John said", "Maria felt">>, <<>>, <<>>>>,
                   !["emotional_state"] = <<<<"hope", "fear">>, <<"felt fear">>, <<>>>>]]
      [] seed = "street" /\ beat = "fear" ->
           \* "The dark street was quiet. Fear and pain."
           [obligation_matches |-> <<<<>>, <<>>, <<>>, <<>>, <<>>>>,
            names |-> <<"The", "Fear">>,
            tone_words |-> {"dark", "fear", "pain", "quiet"},
            location_matches |-> <<<<"street">>, <<>>>>,
            ligand_matches |->
                [NoLigandMatches EXCEPT
                   !["emotional_state"] = <<<<"Fear">>, <<>>, <<>>>>]]
      [] OTHER ->
           \* the empty seed and beat
           [obligation_matches |-> <<<<>>, <<>>, <<>>, <<>>, <<>>>>,
            names |-> <<>>,
            tone_words |-> {},
            location_matches |-> <<<<>>, <<>>>>,
            ligand_matches |-> NoLigandMatches]

\* list.extend over a list of lists
RECURSIVE Flatten(_)
Flatten(lists) == IF lists = <<>> THEN <<>> ELSE Head(lists) \o Flatten(Tail(lists))

RECURSIVE Dedupe(_)
Dedupe(s) ==
    IF s = <<>> THEN <<>>
    ELSE LET rest == Dedupe(SubSeq(s, 1, Len(s) - 1))
         IN IF s[Len(s)] \in Range(rest) THEN rest ELSE Append(rest, s[Len(s)])

Reverse(s) == [i \in 1..Len(s) |-> s[Len(s) + 1 - i]]

\* list(set(s)): the elements of s once each, in the order the hashes of the
\* process give; that order is fixed for the life of the process (hash_seed),
\* and is taken to be the order of first occurrence or its reverse
ListOfSet(hash_seed, s) == IF hash_seed = 0 THEN Dedupe(s) ELSE Reverse(Dedupe(s))

\* an extraction of obligations without the default one
ExtractObligationsNoDefault(self, seed, beat) ==
    ListOfSet(self.hash_seed, Flatten(Findings(seed, beat).obligation_matches))

\* _extract_obligations
ExtractObligations(self, seed, beat) ==
    LET obligations == Flatten(Findings(seed, beat).obligation_matches)
    IN ListOfSet(self.hash_seed,
                 IF obligations = <<>> THEN <<"advance the narrative">>
                 ELSE obligations)

\* _extract_characters
CommonWords == {"The", "This", "That", "And", "But", "Or", "In", "On", "At",
                "To", "For"}
ExtractCharacters(self, seed, beat) ==
    LET NotCommon(name) == name \notin CommonWords
    IN ListOfSet(self.hash_seed, SelectSeq(Findings(seed, beat).names, NotCommon))

\* _extract_tone_vector
PositiveWords == {"happy", "joy", "smile", "bright", "hope", "love", "peace"}
NegativeWords == {"sad", "dark", "fear", "anger", "death", "pain", "despair"}
NeutralWords == {"calm", "quiet", "steady", "normal", "regular"}
ExtractToneVector(seed, beat) ==
    LET found == Findings(seed, beat).tone_words
        pos_count == Cardinality(found \cap PositiveWords)
        neg_count == Cardinality(found \cap NegativeWords)
        neut_count == Cardinality(found \cap NeutralWords)
    IN IF pos_count > neg_count /\ pos_count > neut_count THEN "positive"
       ELSE IF neg_count > pos_count /\ neg_count > neut_count THEN "negative"
       ELSE "neutral"

\* _extract_scope_entities: the matches of the first pattern, the second
\* group of those of the second, then the characters
ExtractScopeEntities(self, seed, beat) ==
    LET matches == Findings(seed, beat).location_matches
        second == [i \in 1..Len(matches[2]) |-> matches[2][i][2]]
    IN ListOfSet(self.hash_seed,
                 matches[1] \o second \o ExtractCharacters(self, seed, beat))

\* _extract_ligands_by_type; matches[i][j] is the j-th match of the i-th
\* pattern, the ids count both from 0
ExtractLigandsByType(matches, ligand_type, scope_entities, tone_vector) ==
    Flatten([i \in 1..Len(matches) |->
               [j \in 1..Len(matches[i]) |->
                  Ligand(ligand_type \o "_" \o ToString(i - 1) \o "_" \o ToString(j - 1),
                         ligand_type, matches[i][j], scope_entities, tone_vector,
                         "None", 1)]])

\* obligation ligands numbered on from the validations recorded so far
CreateObligationLigandsNumberedOn(self, obligations, scope_entities, tone_vector) ==
    [i \in 1..Len(obligations) |->
       Ligand("obligation_" \o ToString(Len(self.expansion_history) + i - 1),
              "obligation_fulfillment", "fulfill: " \o obligations[i],
              scope_entities, tone_vector, obligations[i], 2)]

\* _create_obligation_ligands
CreateObligationLigands(self, obligations, scope_entities, tone_vector) ==
    [i \in 1..Len(obligations) |->
       Ligand("obligation_" \o ToString(i - 1), "obligation_fulfillment",
              "fulfill: " \o obligations[i], scope_entities, tone_vector,
              obligations[i], 2)]

\* extract_beat_ligands: the genome, without the texts and the timestamp
ExtractBeatLigands(self, seed, beat) ==
    LET obligations == ExtractObligations(self, seed, beat)
        characters == ExtractCharacters(self, seed, beat)
        tone_vector == ExtractToneVector(seed, beat)
        scope_entities == ExtractScopeEntities(self, seed, beat)
        found == Findings(seed, beat).ligand_matches
        ligands == Flatten([t \in 1..Len(LigandTypeOrder) |->
                              ExtractLigandsByType(found[LigandTypeOrder[t]],
                                                   LigandTypeOrder[t],
                                                   scope_entities, tone_vector)])
        obligation_ligands == CreateObligationLigands(self, obligations,
                                                      scope_entities, tone_vector)
    IN [obligations |-> obligations,
        characters |-> characters,
        tone_vector |-> tone_vector,
        scope_entities |-> scope_entities,
        ligands |-> ligands \o obligation_ligands]

-----------------------------------------------------------------------------
(* recursive_growth_pass.py : ZCGate *)

\* initialize_growth_session: the gates, in the order the dict holds them
GateOrder == <<"surface_expansion", "deep_analysis", "character_development",
               "thematic_exploration", "obligation_resolution">>
Gates == Range(GateOrder)

\* RecursionBudget: ZCGate.initial_budget of each gate
InitialBudget(g) ==
    CASE g = "surface_expansion"     -> 5
      [] g = "deep_analysis"         -> 10
      [] g = "character_development" -> 8
      [] g = "thematic_exploration"  -> 12
      [] g = "obligation_resolution" -> 15

\* ZCGate.can_continue
CanContinue(budget_remaining) == budget_remaining > 0

\* a gate that takes two units where one is asked for
ConsumeBudgetDouble(budget_remaining, amount) ==
    IF budget_remaining >= 2 * amount THEN budget_remaining - 2 * amount
    ELSE 0

\* ZCGate.consume_budget: the budget it leaves
ConsumeBudget(budget_remaining, amount) ==
    IF budget_remaining >= amount THEN budget_remaining - amount
    ELSE budget_remaining

\* int(x) for x = num / den, den > 0: truncation toward zero
IntOf(num, den) == IF num >= 0 THEN num \div den ELSE -((-num) \div den)

\* a reset that forgets the ceiling
ResetOnInsightUncapped(initial_budget, budget_remaining, insight_quality) ==
    budget_remaining + IntOf(initial_budget * insight_quality, AvgScale)

\* round(x) for x = num / den >= 0, den > 0: to the nearest integer, a half
\* to the even one
RoundOf(num, den) ==
    LET whole == num \div den
        twice == 2 * (num % den)
    IN IF twice < den THEN whole
       ELSE IF twice > den THEN whole + 1
       ELSE IF whole % 2 = 0 THEN whole ELSE whole + 1

\* a reset that rounds the refund instead of truncating it
ResetOnInsightRounded(initial_budget, budget_remaining, insight_quality) ==
    Min(initial_budget,
        budget_remaining + RoundOf(initial_budget * insight_quality, AvgScale))

\* ZCGate.reset_on_insight: the budget it leaves; insight_quality in 1/AvgScale
ResetOnInsight(initial_budget, budget_remaining, insight_quality) ==
    LET reset_amount == IntOf(initial_budget * insight_quality, AvgScale)
    IN Min(initial_budget, budget_remaining + reset_amount)

-----------------------------------------------------------------------------
(* recursive_growth_pass.py : RecursiveGrowthPass, the pure parts *)

\* _update_growth_phase: the phase it sets
UpdateGrowthPhase(state, metrics) ==
    IF state.iteration_count = 0 THEN "seeding"
    ELSE IF metrics.insights_generated = 0 /\ state.iteration_count > 5
         THEN "saturation"
    ELSE IF state.saturation_detected THEN "termination"
    ELSE IF /\ Len(state.quality_trend) >= 3
            /\ \A q \in Range(LastN(state.quality_trend, 3)) : q * 10 > 7 * AvgScale
         THEN "integration"
    ELSE IF metrics.successful_expansions > 0 THEN "elaboration"
    ELSE "seeding"

\* a priority map whose integration phase lists thematic_exploration alone
PriorityMapThematicOnly(phase) ==
    CASE phase = "seeding"     -> <<"surface_expansion", "obligation_resolution">>
      [] phase = "elaboration" -> <<"deep_analysis", "character_development">>
      [] phase = "integration" -> <<"thematic_exploration">>
      [] phase = "saturation"  -> <<"obligation_resolution">>
      [] OTHER                 -> <<>>

\* _select_optimal_gate: priority_map
PriorityMap(phase) ==
    CASE phase = "seeding"     -> <<"surface_expansion", "obligation_resolution">>
      [] phase = "elaboration" -> <<"deep_analysis", "character_development">>
      [] phase = "integration" -> <<"thematic_exploration", "character_development">>
      [] phase = "saturation"  -> <<"obligation_resolution">>
      [] OTHER                 -> <<>>

\* execute_growth_pass: active_gates, in dict order
ActiveGates(gates) ==
    SelectSeq(GateOrder, LAMBDA g : g \in DOMAIN gates /\ CanContinue(gates[g]))

\* max(available_gates, key=budget_remaining): the first of the largest
RECURSIVE MaxBudgetGate(_, _)
MaxBudgetGate(available, gates) ==
    IF Len(available) = 1 THEN Head(available)
    ELSE LET rest == MaxBudgetGate(Tail(available), gates)
         IN IF gates[Head(available)] >= gates[rest] THEN Head(available) ELSE rest

RECURSIVE FirstPreferred(_, _)
FirstPreferred(preferred, available) ==
    IF preferred = <<>> THEN "None"
    ELSE IF Head(preferred) \in Range(available) THEN Head(preferred)
    ELSE FirstPreferred(Tail(preferred), available)

\* _select_optimal_gate
SelectOptimalGate(phase, available, gates) ==
    IF available = <<>> THEN "None"
    ELSE LET preferred == FirstPreferred(PriorityMap(phase), available)
         IN IF preferred # "None" THEN preferred
            ELSE MaxBudgetGate(available, gates)

\* _filter_candidates_for_gate
FilterCandidatesForGate(candidates, gate_name) ==
    CASE gate_name = "surface_expansion" ->
           SelectSeq(candidates, LAMBDA c : c.content.len < 200)
      [] gate_name = "deep_analysis" ->
           SelectSeq(candidates, LAMBDA c : c.content.len >= 100)
      [] gate_name = "character_development" ->
           SelectSeq(candidates, LAMBDA c : c.content.charWord)
      [] gate_name = "thematic_exploration" ->
           SelectSeq(candidates, LAMBDA c : c.content.themeWord)
      [] gate_name = "obligation_resolution" ->
           SelectSeq(candidates, LAMBDA c : c.obligations_addressed # <<>>)
      [] OTHER -> candidates

\* _calculate_expansion_quality, in thousandths; health is the scan's
\* overall_health_score, or -1 when no drift_result is passed
\* the same score from a base of 0.2
CalculateExpansionQualityLowBase(candidate, health) ==
    LET base_quality == 200
        raw_length == Min(150, candidate.content.len)
        length_factor == IF raw_length > 120
                         THEN 150 - (raw_length - 120) * 2
                         ELSE raw_length
        obligation_factor == IF candidate.obligations_addressed # <<>>
                             THEN 300 ELSE 0
        drift_factor == IF health >= 0 THEN (health * 3) \div 10 ELSE 0
        depth_factor == Min(200, candidate.proposed_depth * 50)
        total_quality == base_quality + length_factor * 2 + obligation_factor
                         + drift_factor + depth_factor
    IN Min(1000, total_quality)

CalculateExpansionQuality(candidate, health) ==
    LET base_quality == 500
        \* length_factor in 1/150
        raw_length == Min(150, candidate.content.len)
        length_factor == IF raw_length > 120
                         THEN 150 - (raw_length - 120) * 2
                         ELSE raw_length
        obligation_factor == IF candidate.obligations_addressed # <<>>
                             THEN 300 ELSE 0
        drift_factor == IF health >= 0 THEN (health * 3) \div 10 ELSE 0
        depth_factor == Min(200, candidate.proposed_depth * 50)
        total_quality == base_quality + length_factor * 2 + obligation_factor
                         + drift_factor + depth_factor
    IN Min(1000, total_quality)

\* a validation loop that does not look at the scanner's vote
RECURSIVE ValidateCandidatesAnyVote(_, _, _)
ValidateCandidatesAnyVote(filtered, genome, drift) ==
    IF filtered = <<>> THEN <<>>
    ELSE LET candidate == Head(filtered)
             rest == ValidateCandidatesAnyVote(Tail(filtered), genome, drift)
         IN IF GuardChainPasses(candidate, genome) = "pass"
            THEN <<<<candidate.content.id,
                     CalculateExpansionQuality(candidate,
                        IF drift
                        THEN ScanForDrift(candidate.content.scores).overall_health_score
                        ELSE -1)>>>> \o rest
            ELSE rest

\* _execute_iteration: the loop over filtered_candidates; the accepted
\* candidates as <<text id, quality>> pairs
RECURSIVE ValidateCandidates(_, _, _)
ValidateCandidates(filtered, genome, drift) ==
    IF filtered = <<>> THEN <<>>
    ELSE LET candidate == Head(filtered)
             rest == ValidateCandidates(Tail(filtered), genome, drift)
             guard_result == GuardChainPasses(candidate, genome)
             drift_result == ScanForDrift(candidate.content.scores)
         IN IF guard_result = "pass"
            THEN IF drift
                 THEN IF drift_result.ric_vote_recommendation \in {"Continue", "Suggest"}
                      THEN <<<<candidate.content.id,
                               CalculateExpansionQuality(candidate,
                                   drift_result.overall_health_score)>>>> \o rest
                      ELSE rest
                 ELSE <<<<candidate.content.id,
                          CalculateExpansionQuality(candidate, -1)>>>> \o rest
            ELSE rest

\* _execute_iteration. proposal is "raise" when the candidate source raises,
\* else the list it returns. The result is None or an IterationResult;
\* `outcome` says which return statement was taken.
NoResult(outcome) == [none |-> TRUE, outcome |-> outcome,
                      expansions |-> <<>>, quality_scores |-> <<>>]
ExecuteIteration(genome, proposal, gate_name, drift) ==
    IF proposal = "raise" THEN NoResult("raised")
    ELSE IF proposal = <<>> THEN NoResult("empty")
    ELSE LET filtered == FilterCandidatesForGate(proposal, gate_name)
         IN IF filtered = <<>> THEN NoResult("filtered")
            ELSE LET accepted == ValidateCandidates(filtered, genome, drift)
                 IN IF accepted # <<>>
                    THEN [none |-> FALSE, outcome |-> "accepted",
                          expansions |-> [i \in 1..Len(accepted) |-> accepted[i][1]],
                          quality_scores |-> [i \in 1..Len(accepted) |-> accepted[i][2]]]
                    ELSE NoResult("rejected")

\* scan_and_vote: the scanner notifies the arbiter it was built with
ScanAndVoteNotifies(drift_result) ==
    /\ drift_result.ric_vote_recommendation = "Continue"
    /\ drift_result.overall_health_score > 800

\* _execute_iteration: how many reset_subsystem_on_insight("drift_detector")
\* its calls of scan_and_vote send, if the scanner has an arbiter
ScannerNotifications(genome, proposal, gate_name, drift) ==
    IF proposal = "raise" \/ ~drift THEN 0
    ELSE LET filtered == FilterCandidatesForGate(proposal, gate_name)
         IN Cardinality({i \in 1..Len(filtered) :
                /\ GuardChainPasses(filtered[i], genome) = "pass"
                /\ ScanAndVoteNotifies(ScanForDrift(filtered[i].content.scores))})

\* _process_iteration_result: how many reset_subsystem_on_insight calls the
\* orchestrator sends to its arbiter: the method holds no such call
OrchestratorNotifications(result) == 0

\* _process_iteration_result: avg_quality, in 1/AvgScale
AvgQuality(quality_scores) ==
    IF quality_scores # <<>>
    THEN (SumSeq(quality_scores) * (AvgScale \div 1000)) \div Len(quality_scores)
    ELSE 0

\* a result that counts as an insight whatever its quality
IsInsightAnyQuality(result) == Len(result.expansions) > 0

\* _process_iteration_result: is this result an insight
IsInsight(result) ==
    Len(result.expansions) > 0 /\ AvgQuality(result.quality_scores) * 10 > 7 * AvgScale

\* _process_iteration_result: the RecursionState it leaves
ProcessState(state, result) ==
    LET appended == Append(state.quality_trend, AvgQuality(result.quality_scores))
        trend == IF Len(appended) > 10 THEN Tail(appended) ELSE appended
    IN [state EXCEPT
          !.quality_trend = trend,
          !.expansion_history = state.expansion_history \o result.expansions,
          !.stagnation_counter = IF IsInsight(result) THEN 0
                                 ELSE state.stagnation_counter + 1]

\* _process_iteration_result: the GrowthMetrics it leaves
ProcessMetrics(metrics, result) ==
    [metrics EXCEPT
       !.successful_expansions = @ + Len(result.expansions),
       !.insights_generated = IF IsInsight(result) THEN @ + 1 ELSE @,
       !.budget_resets = IF IsInsight(result) THEN @ + 1 ELSE @]

\* a result processing that consumes nothing
ProcessBudgetRefundOnly(budget_remaining, gate_name, result) ==
    IF IsInsight(result)
    THEN ResetOnInsight(InitialBudget(gate_name), budget_remaining,
                        AvgQuality(result.quality_scores))
    ELSE budget_remaining

\* _process_iteration_result: the selected gate's budget after
\* consume_budget() and, on an insight, reset_on_insight(avg_quality)
ProcessBudget(budget_remaining, gate_name, result) ==
    LET consumed == ConsumeBudget(budget_remaining, 1)
    IN IF IsInsight(result)
       THEN ResetOnInsight(InitialBudget(gate_name), consumed,
                           AvgQuality(result.quality_scores))
       ELSE consumed

\* a failed iteration that is not counted
FailedMetricsUncounted(metrics) == metrics

\* execute_growth_pass: the else branch of `if iteration_result`
FailedMetrics(metrics) == [metrics EXCEPT !.failed_expansions = @ + 1]

\* a stagnation test that lets the counter reach 6
DetectStagnationAtSix(state, elapsed) ==
    \/ state.stagnation_counter >= 6
    \/ /\ Len(state.quality_trend) >= 5
       /\ SumSeq(LastN(state.quality_trend, 5)) * 10 < 3 * 5 * AvgScale
    \/ elapsed

\* _detect_stagnation; elapsed: more than 10 minutes since the last insight
DetectStagnation(state, elapsed) ==
    \/ state.stagnation_counter >= 5
    \/ /\ Len(state.quality_trend) >= 5
       /\ SumSeq(LastN(state.quality_trend, 5)) * 10 < 3 * 5 * AvgScale
    \/ elapsed

\* a finalisation that always leaves the saturation phase
FinalizeStateSaturated(state, metrics) ==
    [state EXCEPT !.current_phase = "saturation"]

\* a finalisation that always leaves the termination phase
FinalizeStateTerminated(state, metrics) ==
    [state EXCEPT !.current_phase = "termination"]

\* _finalize_growth_pass: the RecursionState it leaves
FinalizeState(state, metrics) ==
    [state EXCEPT !.current_phase = IF metrics.successful_expansions > 0
                                    THEN "termination" ELSE "saturation"]

\* _finalize_growth_pass: the GrowthMetrics it leaves
FinalizeMetrics(state, metrics) ==
    [metrics EXCEPT !.saturation_events = IF state.saturation_detected
                                          THEN @ + 1 ELSE @]

-----------------------------------------------------------------------------
(* The genome and the candidate source of the growth pass *)

NoScores == [p \in Pathogens |-> 0]

\* two ligands of the genome: one extracted by a pattern (depth 1, no
\* obligation), one made by _create_obligation_ligands (depth 2)
ActionLigand == Ligand("character_action_0_0", "character_action",
                       "Maria walked", <<"Maria", "kitchen", "house">>,
                       "positive", "None", 1)
ObligationLigand == Ligand("obligation_0", "obligation_fulfillment",
                           "fulfill: decide", <<"Maria", "kitchen", "house">>,
                           "positive", "decide", 2)

PassGenome == [obligations |-> <<"decide">>,
               characters |-> <<"Maria">>,
               tone_vector |-> "positive",
               scope_entities |-> <<"Maria", "kitchen", "house">>,
               ligands |-> <<ActionLigand, ObligationLigand>>]

TextPlain == [id |-> "plain", len |-> 120, entities |-> {"Maria"},
              charWord |-> TRUE, themeWord |-> TRUE, metaphor |-> FALSE,
              scores |-> NoScores]
TextLong == [id |-> "long", len |-> 150, entities |-> {"She"},
             charWord |-> TRUE, themeWord |-> FALSE, metaphor |-> FALSE,
             scores |-> NoScores]
TextBrief == [id |-> "brief", len |-> 5, entities |-> {},
              charWord |-> TRUE, themeWord |-> FALSE, metaphor |-> FALSE,
              scores |-> [NoScores EXCEPT !["sentimentality_bloom"] = 12]]
TextJohn == [id |-> "john", len |-> 120, entities |-> {"Maria", "John"},
             charWord |-> TRUE, themeWord |-> TRUE, metaphor |-> FALSE,
             scores |-> NoScores]
TextToxic == [id |-> "toxic", len |-> 120, entities |-> {"Kitchen"},
              charWord |-> TRUE, themeWord |-> TRUE, metaphor |-> TRUE,
              scores |-> [NoScores EXCEPT !["ancestral_drift"] = 12,
                                           !["scope_creep"] = 18]]

Candidate(content, ligand, depth, tone, obligations) ==
    [content |-> content, target_ligand |-> ligand, proposed_depth |-> depth,
     emotional_tone |-> tone, obligations_addressed |-> obligations]

CandGood == Candidate(TextPlain, ObligationLigand, 3, "neutral", <<"decide">>)
CandWeak == Candidate(TextLong, ObligationLigand, 0, "positive", <<>>)
CandFaint == Candidate(TextBrief, ObligationLigand, 0, "neutral", <<>>)
CandFine == Candidate([TextPlain EXCEPT !.id = "fine"], ObligationLigand, 3,
                      "positive", <<"decide">>)
CandToxic == Candidate(TextToxic, ObligationLigand, 3, "neutral", <<"decide">>)
\* one candidate per guard layer that it alone violates
CandJohn == Candidate(TextJohn, ObligationLigand, 3, "neutral", <<"decide">>)
CandNoAnchor == Candidate([TextPlain EXCEPT !.id = "noanchor"], ActionLigand, 2,
                          "neutral", <<>>)
CandTone == Candidate([TextPlain EXCEPT !.id = "tone"], ObligationLigand, 3,
                      "negative", <<"decide">>)
CandDeep == Candidate([TextPlain EXCEPT !.id = "deep"], ObligationLigand, 5,
                      "neutral", <<"decide">>)

\* a candidate of an external source: no text, bound to a ligand of its own
\* that resolves the obligation at depth 1, proposed one level above the
\* surface; it passes the four layers
TextEmpty == [id |-> "shallow", len |-> 0, entities |-> {},
              charWord |-> FALSE, themeWord |-> FALSE, metaphor |-> FALSE,
              scores |-> NoScores]
SurfaceObligationLigand == Ligand("obligation_1", "obligation_fulfillment",
                                  "fulfill: decide", <<"Maria", "kitchen", "house">>,
                                  "positive", "decide", 1)
CandShallow == Candidate(TextEmpty, SurfaceObligationLigand, -1, "neutral", <<>>)

\* what the candidate source may answer in one iteration
Batch(name) ==
    CASE name = "good"     -> <<CandGood>>
      [] name = "weak"     -> <<CandWeak>>
      [] name = "faint"    -> <<CandFaint>>
      [] name = "pair"     -> <<CandWeak, CandGood>>
      [] name = "mixed"    -> <<CandJohn, CandFine, CandToxic>>
      [] name = "rejected" -> <<CandJohn, CandNoAnchor, CandTone, CandDeep>>
      [] name = "shallow"  -> <<CandShallow>>
      [] name = "empty"    -> <<>>
      [] name = "raise"    -> "raise"
Proposals == {"good", "weak", "faint", "pair", "mixed", "rejected", "empty", "raise"}
AllCandidates == {CandGood, CandWeak, CandFaint, CandFine, CandToxic, CandJohn,
                  CandNoAnchor, CandTone, CandDeep, CandShallow}

-----------------------------------------------------------------------------
(* recursive_growth_pass.py : RecursiveGrowthPass, the operations *)

\* RecursiveGrowthPass.__init__ / initialize_growth_session: RecursionState
FreshState(budget) ==
    [current_phase |-> "seeding", iteration_count |-> 0,
     budget_remaining |-> budget, initial_budget |-> budget,
     stagnation_counter |-> 0, quality_trend |-> <<>>,
     expansion_history |-> <<>>, saturation_detected |-> FALSE]

\* RecursiveGrowthPass.__init__: GrowthMetrics
FreshMetrics ==
    [total_iterations |-> 0, successful_expansions |-> 0,
     failed_expansions |-> 0, insights_generated |-> 0,
     budget_resets |-> 0, saturation_events |-> 0]

\* asked: can_iterate was called in the step; notified, scanner_notified: the
\* reset_subsystem_on_insight calls the orchestrator and the scanner made in it
NoStep == [step |-> "none", gate |-> "None", consumed |-> 0, outcome |-> "none",
           asked |-> FALSE, notified |-> 0, scanner_notified |-> 0]

\* the state RecursiveGrowthPass.__init__ leaves
PassInit ==
    /\ pc = "idle"
    /\ env \in [elegance : BOOLEAN, ric : BOOLEAN, drift : BOOLEAN]
    /\ zc_gates = <<>>
    /\ recursion_state = FreshState(0)
    /\ growth_metrics = FreshMetrics
    /\ iteration = 0
    /\ expansions = <<>>
    /\ max_iterations = 0
    /\ last = NoStep

PassIdle ==
    /\ pc = "off"
    /\ env = [elegance |-> FALSE, ric |-> FALSE, drift |-> FALSE]
    /\ zc_gates = <<>>
    /\ recursion_state = FreshState(0)
    /\ growth_metrics = FreshMetrics
    /\ iteration = 0
    /\ expansions = <<>>
    /\ max_iterations = 0
    /\ last = NoStep

\* initialize_growth_session
InitializeGrowthSession ==
    /\ pc = "idle"
    /\ zc_gates' = [g \in Gates |-> InitialBudget(g)]
    /\ recursion_state' = FreshState(SumSeq([i \in 1..Len(GateOrder) |->
                                               InitialBudget(GateOrder[i])]))
    /\ UNCHANGED <<pc, env, growth_metrics, iteration, expansions,
                   max_iterations, last>>
    /\ UNCHANGED otherThanPass

\* _check_payoff_opportunities: reading GrowthPhase.EXPANSION, which the
\* enum does not define, raises AttributeError
CheckPayoffOpportunitiesRaises == env.elegance

\* execute_growth_pass, up to the loop
ExecuteGrowthPass(n) ==
    /\ pc = "idle"
    /\ max_iterations' = n
    /\ IF CheckPayoffOpportunitiesRaises
       THEN /\ pc' = "raised"
            /\ UNCHANGED <<iteration, expansions>>
       ELSE /\ pc' = "loop"
            /\ iteration' = 0
            /\ expansions' = <<>>
    /\ UNCHANGED <<env, zc_gates, recursion_state, growth_metrics, last>>
    /\ UNCHANGED otherThanPass

\* execute_growth_pass: the while condition
LoopCondition == iteration < max_iterations /\ ~recursion_state.saturation_detected

\* the RecursionState after _update_growth_phase at the top of the body
PhaseUpdated ==
    [recursion_state EXCEPT
       !.current_phase = UpdateGrowthPhase(recursion_state, growth_metrics)]

\* can_iterate asked of an arbiter that is not attached
CanIterateAnswersUnattached == BOOLEAN

\* what the arbiter may answer to can_iterate("recursive_growth_pass")
CanIterateAnswers == IF env.ric THEN BOOLEAN ELSE {TRUE}

\* the loop is left: _finalize_growth_pass, return expansions
Return(state, metrics) ==
    /\ recursion_state' = FinalizeState(state, metrics)
    /\ growth_metrics' = FinalizeMetrics(state, metrics)
    /\ pc' = "returned"

\* execute_growth_pass: the while condition is false
LoopExit ==
    /\ pc = "loop"
    /\ ~LoopCondition
    /\ Return(recursion_state, growth_metrics)
    /\ UNCHANGED <<env, zc_gates, iteration, expansions, max_iterations, last>>
    /\ UNCHANGED otherThanPass

\* execute_growth_pass: the arbiter answers false, break
ArbiterBreak ==
    /\ pc = "loop"
    /\ LoopCondition
    /\ FALSE \in CanIterateAnswers
    /\ Return(PhaseUpdated, growth_metrics)
    /\ last' = [NoStep EXCEPT !.step = "arbiter_break", !.asked = TRUE]
    /\ UNCHANGED <<env, zc_gates, iteration, expansions, max_iterations>>
    /\ UNCHANGED otherThanPass

\* execute_growth_pass: no gate can continue, break
SaturationBreak ==
    /\ pc = "loop"
    /\ LoopCondition
    /\ TRUE \in CanIterateAnswers
    /\ ActiveGates(zc_gates) = <<>>
    /\ Return([PhaseUpdated EXCEPT !.saturation_detected = TRUE], growth_metrics)
    /\ last' = [NoStep EXCEPT !.step = "saturation_break", !.asked = env.ric]
    /\ UNCHANGED <<env, zc_gates, iteration, expansions, max_iterations>>
    /\ UNCHANGED otherThanPass

\* execute_growth_pass: one whole iteration of the loop body, from
\* _update_growth_phase to _detect_stagnation
Iteration(proposal, elapsed) ==
    /\ pc = "loop"
    /\ LoopCondition
    /\ TRUE \in CanIterateAnswers
    /\ ActiveGates(zc_gates) # <<>>
    /\ \E state1 \in {PhaseUpdated} :
       \E selected_gate \in {SelectOptimalGate(state1.current_phase,
                                               ActiveGates(zc_gates), zc_gates)} :
       \E result \in {ExecuteIteration(PassGenome, Batch(proposal), selected_gate,
                                       env.drift)} :
       \E state2 \in {IF result.none THEN state1 ELSE ProcessState(state1, result)} :
       \E metrics2 \in {IF result.none
                        THEN FailedMetrics(growth_metrics)
                        ELSE ProcessMetrics(growth_metrics, result)} :
       \E budget2 \in {IF result.none
                       THEN ConsumeBudget(zc_gates[selected_gate], 1)
                       ELSE ProcessBudget(zc_gates[selected_gate], selected_gate,
                                          result)} :
       \E state3 \in {[state2 EXCEPT !.iteration_count = iteration + 1]} :
       \E metrics3 \in {[metrics2 EXCEPT !.total_iterations = iteration + 1]} :
          /\ expansions' = expansions \o result.expansions
          /\ zc_gates' = [zc_gates EXCEPT ![selected_gate] = budget2]
          /\ iteration' = iteration + 1
          /\ last' = [step |-> "executed", gate |-> selected_gate,
                      consumed |-> ConsumeBudget(zc_gates[selected_gate], 1),
                      outcome |-> result.outcome,
                      asked |-> env.ric,
                      notified |-> IF result.none THEN 0
                                   ELSE OrchestratorNotifications(result),
                      scanner_notified |->
                          ScannerNotifications(PassGenome, Batch(proposal),
                                               selected_gate, env.drift)]
          /\ IF DetectStagnation(state3, elapsed)
             THEN Return(state3, metrics3)
             ELSE /\ recursion_state' = state3
                  /\ growth_metrics' = metrics3
                  /\ pc' = "loop"
    /\ UNCHANGED <<env, max_iterations>>
    /\ UNCHANGED otherThanPass

Next ==
    \/ InitializeGrowthSession
    \/ \E n \in 0..MaxIter : ExecuteGrowthPass(n)
    \/ LoopExit
    \/ ArbiterBreak
    \/ SaturationBreak
    \/ \E proposal \in Proposals, elapsed \in BOOLEAN : Iteration(proposal, elapsed)

-----------------------------------------------------------------------------
(* The variables of the other components, when they take no part *)

GateIdle == gate = [on |-> FALSE]
GuardIdle == guard = [on |-> FALSE]
ScanIdle == scan = [on |-> FALSE]
ExtractorIdle == extractor = [on |-> FALSE]
SessionsIdle == sessions = [on |-> FALSE]
RieIdle == rie = [on |-> FALSE]

-----------------------------------------------------------------------------
(* The growth pass *)

Init == PassInit /\ GateIdle /\ GuardIdle /\ ScanIdle /\ ExtractorIdle
    /\ SessionsIdle /\ RieIdle

Spec == Init /\ [][Next]_vars

-----------------------------------------------------------------------------
(* Claims about the growth pass *)

IsPrefix(s, t) == Len(s) <= Len(t) /\ SubSeq(t, 1, Len(s)) = s

\* the candidate a text of the candidate source comes from
CandidateOfText(id) == CHOOSE c \in AllCandidates : c.content.id = id

\* a step of the model that is one executed iteration of the loop
IterationStep == iteration' = iteration + 1

\* The loop never executes more iterations than max_iterations allows: the
\* iteration counters never exceed it.
IterationBound ==
    /\ iteration <= max_iterations
    /\ pc \in {"loop", "returned"} =>
         /\ recursion_state.iteration_count <= max_iterations
         /\ growth_metrics.total_iterations <= max_iterations

\* C1: for any candidate source, execute_growth_pass with max_iterations = N
\* executes at most N iterations and then returns: the call never ends in
\* another way than by returning, and never counts more than N iterations.
C1_ReturnsWithinN == IterationBound /\ pc # "raised"

\* C2: in a session started by initialize_growth_session every gate's
\* remaining budget stays between 0 and the gate's initial ceiling.
C2_BudgetWithinCeiling ==
    \A g \in DOMAIN zc_gates : 0 <= zc_gates[g] /\ zc_gates[g] <= InitialBudget(g)

\* C2 witness: an iteration ended with an insight reset that filled the
\* selected gate up from below to its ceiling.
C2_Witness ==
    /\ last.step = "executed"
    /\ growth_metrics.budget_resets > 0
    /\ last.consumed < zc_gates[last.gate]
    /\ zc_gates[last.gate] = InitialBudget(last.gate)

\* C3: every executed iteration, whatever its outcome, takes exactly one
\* unit from the gate selected for it before any refund (and only a refund,
\* which comes with an insight, changes the budget again), and leaves the
\* budget of every other gate as it was.
C3_OneUnitFromSelectedGate ==
    [][IterationStep =>
         /\ last'.step = "executed"
         /\ last'.gate \in DOMAIN zc_gates
         /\ last'.consumed = zc_gates[last'.gate] - 1
         /\ \A g \in DOMAIN zc_gates \ {last'.gate} : zc_gates'[g] = zc_gates[g]
         /\ IF growth_metrics'.budget_resets = growth_metrics.budget_resets
            THEN zc_gates'[last'.gate] = last'.consumed
            ELSE zc_gates'[last'.gate] >= last'.consumed]_vars

\* C3 witnesses: an iteration whose candidate source failed took its unit.
C3_Witness ==
    /\ last.step = "executed"
    /\ last.outcome = "raised"
    /\ zc_gates[last.gate] = InitialBudget(last.gate) - 1
    /\ \A g \in Gates \ {last.gate} : zc_gates[g] = InitialBudget(g)

\* C6: every text in the returned list and in the expansion history comes
\* from a candidate that passed the Guard Chain and, with a scanner
\* attached, that the scanner voted Continue or Suggest.
C6_OnlyValidatedTexts ==
    \A t \in Range(expansions) \cup Range(recursion_state.expansion_history) :
        /\ GuardChainPasses(CandidateOfText(t), PassGenome) = "pass"
        /\ env.drift =>
             ScanForDrift(CandidateOfText(t).content.scores).ric_vote_recommendation
                 \in {"Continue", "Suggest"}

\* C6 witness: the batch that holds a candidate out of scope, a clean one and
\* one the scanner blocks was proposed with a scanner attached, and the pass
\* returned the clean text.
C6_Witness ==
    /\ pc = "returned"
    /\ env.drift
    /\ "fine" \in Range(expansions)
    /\ "toxic" \notin Range(expansions)

\* C9: an iteration whose candidate source raised or returned nothing is
\* counted as one failed iteration, leaves the accepted list, the expansion
\* history and the quality trend as they were and does not abort the pass,
\* which goes on or returns the list as it is.
C9_SourceFailureIsNotFatal ==
    [][(IterationStep /\ last'.outcome \in {"raised", "empty"}) =>
         /\ growth_metrics'.failed_expansions = growth_metrics.failed_expansions + 1
         /\ growth_metrics'.successful_expansions = growth_metrics.successful_expansions
         /\ expansions' = expansions
         /\ recursion_state'.expansion_history = recursion_state.expansion_history
         /\ recursion_state'.quality_trend = recursion_state.quality_trend
         /\ pc' \in {"loop", "returned"}]_vars

\* C9 witness: the source raised after a text had been accepted, and the
\* pass returned that text.
C9_Witness ==
    /\ pc = "returned"
    /\ last.outcome = "raised"
    /\ expansions # <<>>
    /\ growth_metrics.failed_expansions > 0

-----------------------------------------------------------------------------
(* A gate on its own: ZCGate driven by its callers *)

\* the qualities a caller passes to reset_on_insight: the hundredths of 0..1
Qualities == {k * (AvgScale \div 100) : k \in 0..100}

\* ZCGate.__init__: budget_remaining starts at initial_budget
GateInit ==
    gate \in {[on |-> TRUE, name |-> g, initial_budget |-> InitialBudget(g),
               budget_remaining |-> InitialBudget(g), op |-> "new",
               before |-> InitialBudget(g), quality |-> 0, returned |-> TRUE]
              : g \in Gates}

\* gate.consume_budget(amount)
GateConsume(amount) ==
    /\ gate.on
    /\ gate' = [gate EXCEPT
                  !.budget_remaining = ConsumeBudget(gate.budget_remaining, amount),
                  !.op = "consume", !.before = gate.budget_remaining,
                  !.quality = 0,
                  !.returned = (gate.budget_remaining >= amount)]
    /\ UNCHANGED <<passVars, sessions, rie, guard, scan, extractor>>

\* gate.reset_on_insight(insight_quality)
GateReset(insight_quality) ==
    /\ gate.on
    /\ gate' = [gate EXCEPT
                  !.budget_remaining = ResetOnInsight(gate.initial_budget,
                                                      gate.budget_remaining,
                                                      insight_quality),
                  !.op = "reset", !.before = gate.budget_remaining,
                  !.quality = insight_quality, !.returned = TRUE]
    /\ UNCHANGED <<passVars, sessions, rie, guard, scan, extractor>>

NextGate ==
    \/ \E amount \in 1..2 : GateConsume(amount)
    \/ \E insight_quality \in Qualities : GateReset(insight_quality)

InitGate == PassIdle /\ GateInit /\ GuardIdle /\ ScanIdle /\ ExtractorIdle
    /\ SessionsIdle /\ RieIdle

SpecGate == InitGate /\ [][NextGate]_vars

-----------------------------------------------------------------------------
(* Claims about a gate *)

\* the insight threshold 0.7 and the top quality 1.0, in 1/AvgScale
InsightQualities == {q \in Qualities : 10 * q > 7 * AvgScale /\ q <= AvgScale}

\* C4 as stated: an insight reset with quality q in (0.7, 1.0] on a gate
\* with ceiling C and remaining budget r leaves min(C, r + round(C x q)).
C4_ResetRounds ==
    (gate.on /\ gate.op = "reset" /\ gate.quality \in InsightQualities) =>
        gate.budget_remaining =
            Min(gate.initial_budget,
                gate.before + RoundOf(gate.initial_budget * gate.quality, AvgScale))

\* C4, as the code has it: an insight reset with quality q in (0.7, 1.0] on
\* a gate with ceiling C and remaining budget r in 0..C leaves
\* min(C, r + floor(C x q)): the refund is truncated, not rounded.
C4_ResetTruncates ==
    (gate.on /\ gate.op = "reset" /\ gate.quality \in InsightQualities) =>
        /\ gate.before \in 0..gate.initial_budget
        /\ gate.budget_remaining =
             Min(gate.initial_budget,
                 gate.before + ((gate.initial_budget * gate.quality) \div AvgScale))

\* C4 witness: the reset of a gate with ceiling 5 and nothing left, with
\* quality 0.75, left 3 (5 x 0.75 = 3.75, truncated), below the ceiling.
C4_Witness ==
    /\ gate.on /\ gate.op = "reset"
    /\ gate.initial_budget = 5
    /\ gate.before = 0
    /\ 4 * gate.quality = 3 * AvgScale
    /\ gate.budget_remaining = 3

-----------------------------------------------------------------------------
(* The Guard Chain on its own: guard_chain_passes called by a validator *)

\* the candidates a caller may hand in: every combination of what the four
\* layers read
GuardEntitySets == {{}, {"Maria"}, {"John"}, {"She", "Kitchen"}, {"Maria", "John"}}
GuardLigands == {NoLigand, ActionLigand, ObligationLigand}
GuardDepths == {1, 5}
GuardTones == {"neutral", "positive", "negative"}
GuardObligations == {<<>>, <<"decide">>, <<"decide", "escape">>}
GuardCandidates ==
    {Candidate([TextPlain EXCEPT !.id = "guard", !.entities = es, !.metaphor = m],
               ligand, depth, tone, obligations) :
        es \in GuardEntitySets, m \in BOOLEAN, ligand \in GuardLigands,
        depth \in GuardDepths, tone \in GuardTones,
        obligations \in GuardObligations}

\* the genomes: the tone is one of the three _extract_tone_vector returns
GuardGenomes == {[PassGenome EXCEPT !.tone_vector = t] : t \in GuardTones}

\* a RecursiveExpander that has validated nothing yet
GuardInit ==
    guard = [on |-> TRUE, op |-> "new", expansion |-> CandGood,
             genome |-> PassGenome, result |-> "none"]

\* expander.guard_chain_passes(expansion, constraint_genome)
Validate(expansion, genome) ==
    /\ guard.on
    /\ guard' = [on |-> TRUE, op |-> "validated", expansion |-> expansion,
                 genome |-> genome,
                 result |-> GuardChainPasses(expansion, genome)]
    /\ UNCHANGED <<passVars, sessions, rie, gate, scan, extractor>>

NextGuard ==
    \E expansion \in GuardCandidates, genome \in GuardGenomes :
        Validate(expansion, genome)

InitGuard == PassIdle /\ GateIdle /\ GuardInit /\ ScanIdle /\ ExtractorIdle
    /\ SessionsIdle /\ RieIdle

SpecGuard == InitGuard /\ [][NextGuard]_vars

-----------------------------------------------------------------------------
(* Claims about the Guard Chain *)

\* the layers in the order the claim gives them, each with the failure it
\* reports
LayerOrder == <<"fail_entity_scope", "fail_proof_anchor",
                "fail_emotional_vector", "fail_surface_depth">>

\* the candidate violates the layer
Violates(layer, expansion, genome) ==
    CASE layer = "fail_entity_scope" ->
           CheckEntityScope(expansion, genome) # "pass"
      [] layer = "fail_proof_anchor" ->
           CheckProofAnchor(expansion, genome) # "pass"
      [] layer = "fail_emotional_vector" ->
           CheckEmotionalVector(expansion, genome) # "pass"
      [] layer = "fail_surface_depth" ->
           CheckSurfaceDepthCongruence(expansion, genome) # "pass"

\* C5: guard_chain_passes returns the failure of the first layer, in the
\* order entity-scope, proof-anchor, emotional-vector, surface-depth, that
\* the candidate violates, and PASS only when it violates none; a candidate
\* violating both entity-scope and proof-anchor gets fail-entity-scope
\* whatever it does in the later layers.
C5_FirstViolatedLayer ==
    (guard.on /\ guard.op = "validated") =>
        LET violated == {i \in 1..Len(LayerOrder) :
                            Violates(LayerOrder[i], guard.expansion, guard.genome)}
        IN /\ violated = {} <=> guard.result = "pass"
           /\ violated # {} =>
                \E i \in violated :
                    /\ \A j \in violated : i <= j
                    /\ guard.result = LayerOrder[i]
           /\ {1, 2} \subseteq violated => guard.result = "fail_entity_scope"

\* C5 witness: a candidate that names John, addresses no obligation through
\* a ligand without anchor, has the wrong tone and jumps four levels was
\* refused for its entity scope.
C5_Witness ==
    /\ guard.on /\ guard.op = "validated"
    /\ \A i \in 1..Len(LayerOrder) :
           Violates(LayerOrder[i], guard.expansion, guard.genome)
    /\ guard.expansion.target_ligand = ActionLigand
    /\ guard.result = "fail_entity_scope"

-----------------------------------------------------------------------------
(* The Pathogen Scanner on its own: DriftDetector driven by its callers *)

\* what a text can score against one fingerprint, as a multiple of its
\* threshold: nothing, just below it (LOW, suppressed), MEDIUM, HIGH, CRITICAL
ScoreAt(level, p) ==
    CASE level = 0 -> 0
      [] level = 1 -> Threshold2(p) - 1
      [] level = 2 -> Threshold2(p)
      [] level = 3 -> 2 * Threshold2(p)
      [] level = 4 -> 3 * Threshold2(p)

\* the texts scanned: the result depends on the severities only through
\* their sum and their counts, so one text per multiset of levels is taken,
\* the levels falling along the library
ScanTexts ==
    {[p \in Pathogens |->
        ScoreAt(levels[CHOOSE i \in 1..Len(PathogenOrder) : PathogenOrder[i] = p], p)]
     : levels \in {l \in [1..Len(PathogenOrder) -> 0..4] :
                      \A i \in 1..(Len(PathogenOrder) - 1) : l[i] >= l[i + 1]}}

\* the arguments of a direct _generate_ric_vote: any severities, any health
Severities == {"LOW", "MEDIUM", "HIGH", "CRITICAL"}
VoteDetections ==
    {<<>>} \cup {<<a>> : a \in Severities}
           \cup {<<a, b>> : a \in Severities, b \in Severities}
           \cup {<<a, b, c>> : a \in Severities, b \in Severities, c \in Severities}
HealthSamples == {0, 299, 300, 499, 500, 699, 700, 900, 901, 1000}

\* DriftDetector.__init__: detection_history = []
ScanInit ==
    scan = [on |-> TRUE, op |-> "new", scores |-> NoScores,
            pathogens_detected |-> <<>>, overall_health_score |-> 1000,
            ric_vote_recommendation |-> "none", history |-> 0]

\* detector.scan_for_drift(text): the result, appended to detection_history
Scan(scores) ==
    /\ scan.on
    /\ scan.history < MaxScans
    /\ \E result \in {ScanForDrift(scores)} :
          scan' = [on |-> TRUE, op |-> "scanned", scores |-> scores,
                   pathogens_detected |-> result.pathogens_detected,
                   overall_health_score |-> result.overall_health_score,
                   ric_vote_recommendation |-> result.ric_vote_recommendation,
                   history |-> scan.history + 1]
    /\ UNCHANGED <<passVars, sessions, rie, gate, guard, extractor>>

\* detector._generate_ric_vote(detections, health_score)
Vote(detections, health_score) ==
    /\ scan.on
    /\ scan' = [scan EXCEPT
                  !.op = "voted", !.scores = NoScores,
                  !.pathogens_detected = detections,
                  !.overall_health_score = health_score,
                  !.ric_vote_recommendation =
                      GenerateRicVote(detections, health_score)]
    /\ UNCHANGED <<passVars, sessions, rie, gate, guard, extractor>>

NextScan ==
    \/ \E scores \in ScanTexts : Scan(scores)
    \/ \E detections \in VoteDetections, health_score \in HealthSamples :
          Vote(detections, health_score)

InitScan == PassIdle /\ GateIdle /\ GuardIdle /\ ScanInit /\ ExtractorIdle
    /\ SessionsIdle /\ RieIdle

SpecScan == InitScan /\ [][NextScan]_vars

-----------------------------------------------------------------------------
(* Claims about the Pathogen Scanner *)

\* the penalties of a list of detections, summed by severity
SummedPenalties(detections) ==
      100 * CountOf(detections, "LOW") + 250 * CountOf(detections, "MEDIUM")
    + 400 * CountOf(detections, "HIGH") + 700 * CountOf(detections, "CRITICAL")

\* C7: after every scan, whatever the number and the severities of the
\* detections, the overall health score is 1.0 minus the summed severity
\* penalties, floored at 0.0, and so lies in [0.0, 1.0].
C7_HealthIsFlooredDifference ==
    (scan.on /\ scan.op = "scanned") =>
        /\ scan.overall_health_score =
             (IF SummedPenalties(scan.pathogens_detected) >= 1000 THEN 0
              ELSE 1000 - SummedPenalties(scan.pathogens_detected))
        /\ scan.overall_health_score \in 0..1000

\* C7 witness: a scan found six critical pathogens, penalties of 4.2 in all,
\* and reported health 0.
C7_Witness ==
    /\ scan.on /\ scan.op = "scanned"
    /\ Len(scan.pathogens_detected) = Len(PathogenOrder)
    /\ CountOf(scan.pathogens_detected, "CRITICAL") = Len(PathogenOrder)
    /\ scan.overall_health_score = 0

\* C8: for every combination of detections and health score the
\* recommendation is Block with two or more critical detections or health
\* below 0.3; otherwise Suggest with a critical detection, two or more high
\* ones or health below 0.7; otherwise Continue.
C8_VotePolicy ==
    (scan.on /\ scan.op \in {"scanned", "voted"}) =>
        LET critical == CountOf(scan.pathogens_detected, "CRITICAL")
            high == CountOf(scan.pathogens_detected, "HIGH")
            health == scan.overall_health_score
        IN scan.ric_vote_recommendation =
             (IF critical >= 2 \/ health < 300 THEN "Block"
              ELSE IF critical >= 1 \/ high >= 2 \/ health < 700 THEN "Suggest"
              ELSE "Continue")

\* C8 witness: a vote on one high detection with health 0.699, neither
\* critical nor a second high one, was Suggest.
C8_Witness ==
    /\ scan.on /\ scan.op = "voted"
    /\ scan.pathogens_detected = <<"HIGH">>
    /\ scan.overall_health_score = 699
    /\ scan.ric_vote_recommendation = "Suggest"

-----------------------------------------------------------------------------
(* The extractor on its own: RecursiveExpander driven by its callers *)

\* the seeds and beats handed to extract_beat_ligands
ExtractInputs == {<<"waiting", "decide">>, <<"waiting", "leave">>,
                  <<"street", "fear">>, <<"blank", "blank">>}

NoGenome == [obligations |-> <<>>, characters |-> <<>>, tone_vector |-> "None",
             scope_entities |-> <<>>, ligands |-> <<>>]

\* RecursiveExpander.__init__, in a process with one of two hash orders;
\* `first` keeps, for observation, the genome of the first extraction of
\* each input, `repeated` whether the latest extraction was a repeated one
ExtractorInit ==
    \E hash_seed \in {0, 1} :
        extractor = [on |-> TRUE, hash_seed |-> hash_seed,
                     expansion_history |-> <<>>, op |-> "new",
                     input |-> <<"blank", "blank">>, genome |-> NoGenome,
                     first |-> [in \in ExtractInputs |-> NoGenome],
                     repeated |-> FALSE]

\* extract_beat_ligands raises: the constructor of one of its ligands does
ExtractRaises(genome) ==
    \E i \in 1..Len(genome.ligands) : PostInitRaises(genome.ligands[i])

\* expander.extract_beat_ligands(seed, beat)
Extract(seed, beat) ==
    /\ extractor.on
    /\ \E genome \in {ExtractBeatLigands(extractor, seed, beat)} :
          IF ExtractRaises(genome)
          THEN extractor' = [extractor EXCEPT !.op = "raised",
                                              !.input = <<seed, beat>>,
                                              !.genome = NoGenome,
                                              !.repeated = FALSE]
          ELSE extractor' =
              [extractor EXCEPT
                 !.op = "extracted", !.input = <<seed, beat>>, !.genome = genome,
                 !.first[<<seed, beat>>] =
                     IF @ = NoGenome THEN genome ELSE @,
                 !.repeated = (extractor.first[<<seed, beat>>] # NoGenome)]
    /\ UNCHANGED <<passVars, sessions, rie, gate, guard, scan>>

\* expand_recursively: a candidate is validated and the result recorded in
\* expansion_history
RecordValidation(candidate, genome) ==
    /\ extractor.on
    /\ Len(extractor.expansion_history) < MaxValidations
    /\ extractor' =
           [extractor EXCEPT
              !.op = "validated",
              !.expansion_history =
                  Append(@, <<candidate.content.id,
                              GuardChainPasses(candidate, genome)>>)]
    /\ UNCHANGED <<passVars, sessions, rie, gate, guard, scan>>

NextExtract ==
    \/ \E in \in ExtractInputs : Extract(in[1], in[2])
    \/ \E candidate \in {CandGood, CandJohn} : RecordValidation(candidate, PassGenome)

InitExtract == PassIdle /\ GateIdle /\ GuardIdle /\ ScanIdle /\ ExtractorInit
    /\ SessionsIdle /\ RieIdle

SpecExtract == InitExtract /\ [][NextExtract]_vars

-----------------------------------------------------------------------------
(* Claims about the extractor *)

FulfillingLigands(genome, obligation) ==
    {i \in 1..Len(genome.ligands) :
        /\ genome.ligands[i].type = "obligation_fulfillment"
        /\ genome.ligands[i].obligation_anchor = obligation}

\* C11: extract_beat_ligands never fails, for the empty text too; when no
\* obligation phrase is found the obligations are exactly the default
\* "advance the narrative"; every genome has at least one obligation,
\* exactly one obligation-fulfillment ligand per obligation, and so at least
\* one ligand.
C11_ExtractNeverFails ==
    extractor.on =>
        /\ extractor.op # "raised"
        /\ extractor.op = "extracted" =>
             LET genome == extractor.genome
                 found == Flatten(Findings(extractor.input[1],
                                           extractor.input[2]).obligation_matches)
             IN /\ found = <<>> => genome.obligations = <<"advance the narrative">>
                /\ Len(genome.obligations) >= 1
                /\ \A i \in 1..Len(genome.obligations) :
                       Cardinality(FulfillingLigands(genome, genome.obligations[i])) = 1
                /\ Cardinality({i \in 1..Len(genome.ligands) :
                                   genome.ligands[i].type = "obligation_fulfillment"})
                       = Len(genome.obligations)
                /\ Len(genome.ligands) > 0

\* C11 witness: the empty seed and beat were extracted; the genome has the
\* default obligation and its one ligand.
C11_Witness ==
    /\ extractor.on /\ extractor.op = "extracted"
    /\ extractor.input = <<"blank", "blank">>
    /\ extractor.genome.obligations = <<"advance the narrative">>
    /\ Len(extractor.genome.ligands) = 1
    /\ extractor.genome.ligands[1].obligation_anchor = "advance the narrative"

\* C15: an executed iteration that accepts no candidate (the source raised
\* or proposed nothing, the gate filtered every candidate out, or the Guard
\* Chain or the scanner rejected every candidate) adds one to the stagnation
\* counter.
C15_ZeroAcceptedCountsTowardStagnation ==
    [][(IterationStep /\ last'.outcome \in {"raised", "empty", "filtered", "rejected"}) =>
         recursion_state'.stagnation_counter =
             recursion_state.stagnation_counter + 1]_vars

-----------------------------------------------------------------------------
(* Claims about the arbiter of the growth pass *)

\* C12: with an arbiter attached can_iterate is asked before every
\* iteration, and when it answers false the pass ends at once: no candidate
\* is requested and no budget, counter or list changes in that iteration.
\* Without an arbiter the pass goes as if the answer were always true: it
\* never ends for the arbiter's sake, and with budget left the loop body is
\* an executed iteration.
C12_ArbiterConsulted ==
    [][/\ (IterationStep /\ env.ric) => last'.asked
       /\ (pc = "loop" /\ last'.step = "arbiter_break") =>
            /\ env.ric /\ last'.asked
            /\ pc' = "returned"
            /\ last'.outcome = "none" /\ last'.gate = "None"
            /\ zc_gates' = zc_gates
            /\ expansions' = expansions
            /\ iteration' = iteration
            /\ recursion_state'.iteration_count = recursion_state.iteration_count
            /\ recursion_state'.stagnation_counter = recursion_state.stagnation_counter
            /\ recursion_state'.expansion_history = recursion_state.expansion_history
            /\ recursion_state'.quality_trend = recursion_state.quality_trend
            /\ growth_metrics' = growth_metrics
       /\ (pc = "loop" /\ ~env.ric /\ LoopCondition) =>
            /\ ~last'.asked
            /\ IF ActiveGates(zc_gates) # <<>>
               THEN IterationStep /\ last'.step = "executed"
               ELSE last'.step = "saturation_break"]_vars

\* C12 witness: after an accepted text the arbiter answered false and the
\* pass returned what it had.
C12_Witness ==
    /\ pc = "returned"
    /\ env.ric
    /\ last.step = "arbiter_break"
    /\ iteration > 0
    /\ expansions # <<>>
    /\ \E g \in Gates : zc_gates[g] > 0

\* C13 as stated, and read in the arbiter's favour: with an arbiter
\* attached, every iteration that ends in an insight reset is followed by a
\* reset_subsystem_on_insight notification to the arbiter, sent by the
\* orchestrator or, if not by it, by the scanner it calls.
C13_InsightNotifiesArbiter ==
    [][(/\ IterationStep
        /\ env.ric
        /\ growth_metrics'.budget_resets = growth_metrics.budget_resets + 1) =>
         last'.notified + last'.scanner_notified >= 1]_vars

-----------------------------------------------------------------------------
(* Two sessions: two RecursiveGrowthPass instances, one shared DriftDetector *)

\* one orchestrator as a record, after __init__ and initialize_growth_session
\* (no arbiter, no elegance modules, the shared scanner attached)
NewSession ==
    [pc |-> "idle",
     zc_gates |-> [g \in Gates |-> InitialBudget(g)],
     recursion_state |-> FreshState(SumSeq([i \in 1..Len(GateOrder) |->
                                              InitialBudget(GateOrder[i])])),
     growth_metrics |-> FreshMetrics,
     iteration |-> 0, expansions |-> <<>>, max_iterations |-> 0]

\* execute_growth_pass, up to the loop
SessionStart(s, n) ==
    [s EXCEPT !.pc = "loop", !.max_iterations = n, !.iteration = 0,
              !.expansions = <<>>]

\* _finalize_growth_pass and the return
SessionReturn(s, state, metrics) ==
    [s EXCEPT !.recursion_state = FinalizeState(state, metrics),
              !.growth_metrics = FinalizeMetrics(state, metrics),
              !.pc = "returned"]

\* the gate the next iteration of the session selects
SessionGate(s) ==
    SelectOptimalGate(UpdateGrowthPhase(s.recursion_state, s.growth_metrics),
                      ActiveGates(s.zc_gates), s.zc_gates)

\* execute_growth_pass: one turn of the while loop on the orchestrator s,
\* the test of the condition included
SessionTurn(s, genome, proposal, elapsed) ==
    LET state1 == [s.recursion_state EXCEPT
                     !.current_phase = UpdateGrowthPhase(s.recursion_state,
                                                         s.growth_metrics)]
        selected_gate == SessionGate(s)
        result == ExecuteIteration(genome, proposal, selected_gate, TRUE)
        state2 == IF result.none THEN state1 ELSE ProcessState(state1, result)
        metrics2 == IF result.none THEN FailedMetrics(s.growth_metrics)
                    ELSE ProcessMetrics(s.growth_metrics, result)
        budget2 == IF result.none THEN ConsumeBudget(s.zc_gates[selected_gate], 1)
                   ELSE ProcessBudget(s.zc_gates[selected_gate], selected_gate, result)
        state3 == [state2 EXCEPT !.iteration_count = s.iteration + 1]
        metrics3 == [metrics2 EXCEPT !.total_iterations = s.iteration + 1]
        iterated == [s EXCEPT !.expansions = @ \o result.expansions,
                              !.zc_gates[selected_gate] = budget2,
                              !.iteration = @ + 1,
                              !.recursion_state = state3,
                              !.growth_metrics = metrics3]
    IN IF ~(s.iteration < s.max_iterations /\ ~s.recursion_state.saturation_detected)
       THEN SessionReturn(s, s.recursion_state, s.growth_metrics)
       ELSE IF ActiveGates(s.zc_gates) = <<>>
       THEN SessionReturn(s, [state1 EXCEPT !.saturation_detected = TRUE],
                          s.growth_metrics)
       ELSE IF DetectStagnation(state3, elapsed)
       THEN SessionReturn(iterated, state3, metrics3)
       ELSE iterated

\* _execute_iteration: how many texts it hands to the scanner
ScansIn(s, genome, proposal) ==
    IF proposal = "raise" \/ s.pc # "loop" \/ ActiveGates(s.zc_gates) = <<>>
       \/ ~(s.iteration < s.max_iterations /\ ~s.recursion_state.saturation_detected)
    THEN 0
    ELSE LET filtered == FilterCandidatesForGate(proposal, SessionGate(s))
         IN Cardinality({i \in 1..Len(filtered) :
                            GuardChainPasses(filtered[i], genome) = "pass"})

\* an orchestrator whose gates are those of the class, shared by all
BystanderSharedGates(other, turned) == [other EXCEPT !.zc_gates = turned.zc_gates]

\* what a turn of one orchestrator leaves of the other: zc_gates,
\* recursion_state and growth_metrics are attributes of the instance
Bystander(other, turned) == other

\* each session has its own genome: the second one has John in scope
SessionGenome(i) ==
    IF i = 1 THEN PassGenome
    ELSE [PassGenome EXCEPT !.scope_entities = <<"Maria", "John", "kitchen">>,
                            !.characters = <<"Maria", "John">>]

\* what the candidate sources of the two sessions propose
TwoProposals == {"good", "raise"}

\* two orchestrators built and initialised, the scanner new; inputs keeps,
\* for observation, what each session was called with
TwoInit ==
    sessions = [on |-> TRUE,
                s |-> [i \in 1..2 |-> NewSession],
                inputs |-> [i \in 1..2 |-> <<>>],
                scanner |-> [detection_history |-> 0]]

\* session i: execute_growth_pass is called
TwoStart(i, n) ==
    /\ sessions.on
    /\ sessions.s[i].pc = "idle"
    /\ sessions' = [sessions EXCEPT
                      !.s[i] = SessionStart(@, n),
                      !.inputs[i] = Append(@, <<"start", n>>)]
    /\ UNCHANGED <<passVars, rie, gate, guard, scan, extractor>>

\* session i runs one turn of its loop, up to the next iteration boundary
TwoTurn(i, proposal, elapsed) ==
    /\ sessions.on
    /\ sessions.s[i].pc = "loop"
    /\ \E turned \in {SessionTurn(sessions.s[i], SessionGenome(i),
                                   Batch(proposal), elapsed)} :
          sessions' =
              [sessions EXCEPT
                 !.s = [j \in 1..2 |-> IF j = i THEN turned
                                       ELSE Bystander(sessions.s[j], turned)],
                 !.inputs[i] = Append(@, <<proposal, elapsed>>),
                 !.scanner.detection_history =
                     @ + ScansIn(sessions.s[i], SessionGenome(i), Batch(proposal))]
    /\ UNCHANGED <<passVars, rie, gate, guard, scan, extractor>>

NextTwo ==
    \/ \E i \in 1..2, n \in 1..MaxTwoIter : TwoStart(i, n)
    \/ \E i \in 1..2, proposal \in TwoProposals, elapsed \in BOOLEAN :
          TwoTurn(i, proposal, elapsed)

InitTwo == PassIdle /\ GateIdle /\ GuardIdle /\ ScanIdle /\ ExtractorIdle
    /\ TwoInit /\ RieIdle

SpecTwo == InitTwo /\ [][NextTwo]_vars

-----------------------------------------------------------------------------
(* Claims about two sessions *)

\* the session run alone: the same calls on an orchestrator of its own
RECURSIVE SoloRun(_, _)
SoloRun(i, inputs) ==
    IF inputs = <<>> THEN NewSession
    ELSE LET before == SoloRun(i, SubSeq(inputs, 1, Len(inputs) - 1))
             input == inputs[Len(inputs)]
         IN IF input[1] = "start" THEN SessionStart(before, input[2])
            ELSE SessionTurn(before, SessionGenome(i), Batch(input[1]), input[2])

-----------------------------------------------------------------------------
(* Long passes: no elegance modules, no arbiter, no scanner *)

\* what the candidate source proposes in a pass of n iterations: any of five
\* batches in a pass of up to MaxLongIter, nothing or a weak text in a
\* longer one
LongProposals(n) ==
    IF n <= MaxLongIter THEN {"empty", "weak", "faint", "good", "shallow"}
    ELSE {"empty", "weak"}

NextLong ==
    \/ InitializeGrowthSession
    \/ \E n \in {MaxLongIter, MaxDrainIter} : ExecuteGrowthPass(n)
    \/ LoopExit
    \/ SaturationBreak
    \/ \E proposal \in LongProposals(max_iterations), elapsed \in BOOLEAN :
          Iteration(proposal, elapsed)

InitLong == PassInit /\ GateIdle /\ GuardIdle /\ ScanIdle /\ ExtractorIdle
    /\ SessionsIdle /\ RieIdle
    /\ env = [elegance |-> FALSE, ric |-> FALSE, drift |-> FALSE]

SpecLong == InitLong /\ [][NextLong]_vars

-----------------------------------------------------------------------------
(* Claims about the phases and the stagnation of a pass *)

\* the place of a phase in the order of the growth phases; elaboration and
\* integration share a place, since they may alternate
PhaseRank(phase) ==
    CASE phase = "seeding"     -> 0
      [] phase = "elaboration" -> 1
      [] phase = "integration" -> 1
      [] phase = "saturation"  -> 2
      [] phase = "termination" -> 3

\* C16: within one session the phase never moves back in the order seeding,
\* elaboration or integration, saturation, termination; after saturation it
\* is never again seeding, elaboration or integration.
C16_PhaseMovesForward ==
    [][PhaseRank(recursion_state'.current_phase) >=
           PhaseRank(recursion_state.current_phase)]_vars

\* C17: a session starts in the seeding phase, and the phase recomputed at
\* the top of an iteration, when no insight was generated so far and five or
\* more iterations were executed, is saturation.
C17_SeedingThenSaturationAfterFive ==
    /\ pc = "idle" => recursion_state.current_phase = "seeding"
    /\ (/\ pc = "loop"
        /\ LoopCondition
        /\ growth_metrics.insights_generated = 0
        /\ recursion_state.iteration_count >= 5)
       => PhaseUpdated.current_phase = "saturation"

\* the texts an iteration step accepted, and their quality scores
StepTexts == SubSeq(expansions', Len(expansions) + 1, Len(expansions'))
StepScores ==
    [i \in 1..Len(StepTexts) |->
        CalculateExpansionQuality(
            CandidateOfText(StepTexts[i]),
            IF env.drift
            THEN ScanForDrift(CandidateOfText(StepTexts[i]).content.scores).overall_health_score
            ELSE -1)]

\* the average quality of the accepted texts of the step exceeds 0.7
StepQualityHigh ==
    StepTexts # <<>> /\ SumSeq(StepScores) * 10 > 7000 * Len(StepTexts)

\* the step made an insight reset
StepInsightReset ==
    /\ growth_metrics'.insights_generated = growth_metrics.insights_generated + 1
    /\ growth_metrics'.budget_resets = growth_metrics.budget_resets + 1
    /\ recursion_state'.stagnation_counter = 0
    /\ zc_gates'[last'.gate] = ResetOnInsight(InitialBudget(last'.gate), last'.consumed,
                                             AvgQuality(StepScores))

\* C18: an iteration makes an insight reset (refund on the selected gate,
\* one more insight, stagnation counter 0) exactly when it accepted at least
\* one candidate and the average quality of the accepted candidates exceeds
\* 0.7; any other iteration that accepted candidates adds exactly one to the
\* stagnation counter, and refunds nothing.
C18_InsightResetIffHighQuality ==
    [][IterationStep =>
         /\ StepInsightReset <=> StepQualityHigh
         /\ (StepTexts # <<>> /\ ~StepQualityHigh) =>
              /\ recursion_state'.stagnation_counter =
                     recursion_state.stagnation_counter + 1
              /\ growth_metrics'.insights_generated = growth_metrics.insights_generated
              /\ growth_metrics'.budget_resets = growth_metrics.budget_resets
              /\ zc_gates'[last'.gate] = last'.consumed]_vars

\* C18 witness: after an insight reset, an iteration accepted a text of
\* lower quality and the stagnation counter went from 0 to 1.
C18_Witness ==
    /\ last.outcome = "accepted"
    /\ growth_metrics.insights_generated >= 1
    /\ recursion_state.stagnation_counter = 1
    /\ growth_metrics.successful_expansions >= 2

\* C19: when an iteration ends with the stagnation counter at 5 or more, or
\* with five recorded quality scores whose last five average below 0.3, the
\* pass returns without another iteration; so the stagnation counter of a
\* session never exceeds 5.
C19_StagnationTerminates ==
    /\ [](recursion_state.stagnation_counter <= 5)
    /\ [][(/\ IterationStep
           /\ \/ recursion_state'.stagnation_counter >= 5
              \/ /\ Len(recursion_state'.quality_trend) >= 5
                 /\ SumSeq(LastN(recursion_state'.quality_trend, 5)) * 10
                        < 3 * 5 * AvgScale)
          => pc' = "returned"]_vars

\* C19 witness: the fifth accepted iteration without an insight in a row
\* ended a pass that had iterations left.
C19_Witness ==
    /\ pc = "returned"
    /\ recursion_state.stagnation_counter = 5
    /\ last.outcome = "accepted"
    /\ iteration < max_iterations
    /\ ActiveGates(zc_gates) # <<>>

-----------------------------------------------------------------------------
(* Claims about the end of a pass and the choice of the gate *)

\* a step in which the arbiter's answer or a stagnation test ends the pass
EndedByArbiterOrStagnation ==
    /\ pc = "loop"
    /\ pc' = "returned"
    /\ \/ last'.step = "arbiter_break" /\ iteration' = iteration
       \/ IterationStep

-----------------------------------------------------------------------------
(* _select_optimal_gate on its own: any phase, any budgets *)

Phases == {"seeding", "elaboration", "integration", "saturation", "termination"}

\* the budgets a gate is tried with: empty, one unit, full
SelectBudgets(g) == {0, 1, InitialBudget(g)}

\* an initialised orchestrator in the loop, about to select a gate
SelectInit ==
    /\ pc = "select"
    /\ env = [elegance |-> FALSE, ric |-> FALSE, drift |-> FALSE]
    /\ zc_gates \in {z \in [Gates -> 0..15] : \A g \in Gates : z[g] \in SelectBudgets(g)}
    /\ \E phase \in Phases \ {"termination"} :
          recursion_state = [FreshState(50) EXCEPT !.current_phase = phase]
    /\ growth_metrics = FreshMetrics
    /\ iteration = 0
    /\ expansions = <<>>
    /\ max_iterations = 1
    /\ last = NoStep

\* execute_growth_pass: active_gates is built and _select_optimal_gate called
SelectGate ==
    /\ pc = "select"
    /\ pc' = "selected"
    /\ last' = [NoStep EXCEPT
                  !.step = "selected",
                  !.gate = SelectOptimalGate(recursion_state.current_phase,
                                             ActiveGates(zc_gates), zc_gates)]
    /\ UNCHANGED <<env, zc_gates, recursion_state, growth_metrics, iteration,
                   expansions, max_iterations>>
    /\ UNCHANGED otherThanPass

NextSelect == SelectGate

InitSelect == SelectInit /\ GateIdle /\ GuardIdle /\ ScanIdle /\ ExtractorIdle
    /\ SessionsIdle /\ RieIdle

SpecSelect == InitSelect /\ [][NextSelect]_vars

\* the priority lists as the claim gives them, and as the code has them
StatedPriority(phase) ==
    CASE phase = "seeding"     -> <<"surface_expansion", "obligation_resolution">>
      [] phase = "elaboration" -> <<"deep_analysis", "character_development">>
      [] phase = "integration" -> <<"thematic_exploration">>
      [] phase = "saturation"  -> <<"obligation_resolution">>
      [] OTHER                 -> <<>>
CodedPriority(phase) ==
    IF phase = "integration"
    THEN <<"thematic_exploration", "character_development">>
    ELSE StatedPriority(phase)

\* the selected gate follows the priority list `priority` of the phase
SelectionFollows(priority) ==
    LET funded == {g \in Gates : zc_gates[g] > 0}
        listed == {i \in 1..Len(priority) : priority[i] \in funded}
    IN IF funded = {} THEN last.gate = "None"
       ELSE /\ last.gate \in funded
            /\ IF listed # {}
               THEN last.gate = priority[CHOOSE i \in listed : \A j \in listed : i <= j]
               ELSE \A g \in funded : zc_gates[last.gate] >= zc_gates[g]

\* C22: the selected gate is the first gate with budget in the priority list
\* of the phase (integration: thematic_exploration alone), else a gate with
\* the largest budget among those with budget; never a gate with no budget.
C22_SelectionAsStated ==
    pc = "selected" => SelectionFollows(StatedPriority(recursion_state.current_phase))

\* C22, as the code has it: the same, with character_development second in
\* the priority list of the integration phase.
C22_SelectionAsCoded ==
    pc = "selected" => SelectionFollows(CodedPriority(recursion_state.current_phase))

\* C22 witness: in the integration phase, with thematic_exploration empty,
\* character_development was selected though another gate had more budget.
C22_Witness ==
    /\ pc = "selected"
    /\ recursion_state.current_phase = "integration"
    /\ zc_gates["thematic_exploration"] = 0
    /\ last.gate = "character_development"
    /\ zc_gates["obligation_resolution"] > zc_gates["character_development"]

-----------------------------------------------------------------------------
(* Claims about the layers of the Guard Chain *)

\* the rule of the emotional-vector layer as it is stated
ToneAllowed(genome_tone, candidate_tone) ==
    \/ candidate_tone = genome_tone
    \/ candidate_tone = "neutral"
    \/ /\ genome_tone = "negative" /\ candidate_tone = "neutral"
    \/ /\ genome_tone = "neutral" /\ candidate_tone = "positive"
    \/ /\ genome_tone = "positive" /\ candidate_tone = "neutral"
    \/ /\ genome_tone = "neutral" /\ candidate_tone = "negative"

\* C23: the emotional-vector layer passes exactly when the candidate's tone
\* is the genome's tone, or neutral, or follows it in one of the four stated
\* pairs; over positive, negative and neutral it fails exactly for a
\* positive genome with a negative candidate and the reverse. A candidate
\* that passes the two earlier layers is refused with fail-emotional-vector
\* exactly then.
C23_EmotionalVectorRule ==
    (guard.on /\ guard.op = "validated") =>
        LET genome_tone == guard.genome.tone_vector
            candidate_tone == guard.expansion.emotional_tone
            passes == CheckEmotionalVector(guard.expansion, guard.genome) = "pass"
        IN /\ passes <=> ToneAllowed(genome_tone, candidate_tone)
           /\ {genome_tone, candidate_tone} \subseteq {"positive", "negative", "neutral"} =>
                (~passes <=> <<genome_tone, candidate_tone>> \in
                                {<<"positive", "negative">>, <<"negative", "positive">>})
           /\ (/\ CheckEntityScope(guard.expansion, guard.genome) = "pass"
               /\ CheckProofAnchor(guard.expansion, guard.genome) = "pass")
              => (guard.result = "fail_emotional_vector" <=> ~passes)

\* C23 witness: a negative candidate that passes the two earlier layers was
\* refused for its tone under a positive genome.
C23_Witness ==
    /\ guard.on
    /\ guard.op = "validated"
    /\ guard.genome.tone_vector = "positive"
    /\ guard.expansion.emotional_tone = "negative"
    /\ guard.result = "fail_emotional_vector"

-----------------------------------------------------------------------------
(* Claims about the history of the scanner *)

\* a limit on the retained scan results that the scans of the model can
\* pass; the code names no limit, and any limit is passed by as many scans
\* plus one
HistoryLimit == MaxScans - 1

\* C24: the number of scan results the scanner retains never exceeds a
\* fixed limit, however many scans were made.
C24_HistoryIsBounded ==
    scan.on => scan.history <= HistoryLimit

-----------------------------------------------------------------------------
(* inquiry_bank.py : RecursiveInquiryEngine *)

\* _initialize_template_library: depth and context_requirements of the
\* fifteen templates; the placeholders of each pattern are its requirements
Template(template_id, depth, context_requirements) ==
    [template_id |-> template_id, depth |-> depth,
     context_requirements |-> context_requirements]
Templates ==
    {Template("char_motivation", "MEDIUM", {"character", "action"}),
     Template("char_secret", "DEEP", {"character"}),
     Template("char_contradiction", "RECURSIVE", {"character", "trait", "action"}),
     Template("world_rule", "MEDIUM", {"element"}),
     Template("world_history", "DEEP", {"event", "location"}),
     Template("plot_obstacle", "SURFACE", {"character", "goal"}),
     Template("plot_stakes", "MEDIUM", {"character", "task"}),
     Template("emotion_root", "DEEP", {"character", "emotion", "situation"}),
     Template("emotion_conflict", "RECURSIVE", {"character", "emotion"}),
     Template("relationship_tension", "MEDIUM", {"character1", "character2"}),
     Template("relationship_history", "DEEP", {"character1", "character2"}),
     Template("theme_symbol", "DEEP", {"object", "character"}),
     Template("theme_lesson", "RECURSIVE", {"character", "theme"}),
     Template("sensory_atmosphere", "SURFACE", {"location", "character", "emotion"}),
     Template("sensory_memory", "MEDIUM", {"character", "memory"})}

\* generate_inquiry: usable_templates; depth "None" is no filter. context is
\* the set of keys of the context dict
UsableTemplates(context, depth) ==
    {t \in Templates : /\ depth \in {"None", t.depth}
                       /\ t.context_requirements \subseteq context}

\* RecursiveInquiryEngine.__init__. active_inquiries maps an id to an
\* object of `objects`: an ActiveInquiry kept under two ids is one object
NewEngine ==
    [on |-> TRUE, op |-> <<"new">>, objects |-> <<>>, active_inquiries |-> <<>>,
     seed_question_map |-> <<>>, beat_question_map |-> <<>>,
     inquiry_counter |-> 0]

\* dict[key] = value, and dict[key].append(value) with the empty default
DictSet(dict, key, value) ==
    [k \in DOMAIN dict \cup {key} |-> IF k = key THEN value ELSE dict[k]]
DictAppend(dict, key, value) ==
    DictSet(dict, key, IF key \in DOMAIN dict THEN Append(dict[key], value)
                       ELSE <<value>>)
DictDel(dict, keys) == [k \in DOMAIN dict \ keys |-> dict[k]]

InquiryId(n) == "inquiry_" \o ToString(n)
FollowupId(parent_inquiry_id, n) == parent_inquiry_id \o "_followup_" \o ToString(n)

\* generate_inquiry with the template random.choice picked: the inquiry is
\* created and registered under its id, its seed and its beat
RegisterInquiry(engine, seed_id, beat_id, context, template) ==
    LET inquiry_id == InquiryId(engine.inquiry_counter)
        inquiry == [inquiry_id |-> inquiry_id, beat_id |-> beat_id,
                    seed_id |-> seed_id, template_id |-> template.template_id,
                    context_snapshot |-> context, exploration_paths |-> 0]
    IN [engine EXCEPT
          !.inquiry_counter = @ + 1,
          !.objects = Append(@, inquiry),
          !.active_inquiries = DictSet(@, inquiry_id, Len(engine.objects) + 1),
          !.seed_question_map = DictAppend(@, seed_id, inquiry_id),
          !.beat_question_map = DictAppend(@, beat_id, inquiry_id)]

\* generate_followup_inquiry: the loop over the paths, `paths` of them left
\* and `made` follow-ups made so far; the engines it can leave
RECURSIVE FollowupLoop(_, _, _, _)
FollowupLoop(engine, parent_inquiry_id, paths, made) ==
    IF paths = 0 THEN {engine}
    ELSE LET parent == engine.objects[engine.active_inquiries[parent_inquiry_id]]
             followup_context == parent.context_snapshot \cup {"emotion"}
             usable == UsableTemplates(followup_context, "MEDIUM")
         IN IF usable = {}
            THEN FollowupLoop(engine, parent_inquiry_id, paths - 1, made)
            ELSE UNION {
                   LET registered == RegisterInquiry(engine, parent.seed_id,
                                                     parent.beat_id,
                                                     followup_context, t)
                       ref == Len(registered.objects)
                       renamed == [registered EXCEPT
                           !.objects[ref].inquiry_id =
                               FollowupId(parent_inquiry_id, made),
                           !.active_inquiries =
                               DictSet(@, FollowupId(parent_inquiry_id, made), ref)]
                   IN FollowupLoop(renamed, parent_inquiry_id, paths - 1, made + 1)
                   : t \in usable}

\* get_seed_inquiries
GetSeedInquiries(engine, seed_id) ==
    IF seed_id \notin DOMAIN engine.seed_question_map THEN <<>>
    ELSE LET inquiry_ids == SelectSeq(engine.seed_question_map[seed_id],
                                LAMBDA id : id \in DOMAIN engine.active_inquiries)
         IN [i \in 1..Len(inquiry_ids) |->
                engine.objects[engine.active_inquiries[inquiry_ids[i]]]]

\* reset_seed_inquiries: the engine it leaves
ResetSeed(engine, seed_id) ==
    LET deleted == IF seed_id \in DOMAIN engine.seed_question_map
                   THEN Range(engine.seed_question_map[seed_id])
                   ELSE {}
        active == DictDel(engine.active_inquiries, deleted)
        beats == [b \in DOMAIN engine.beat_question_map |->
                     SelectSeq(engine.beat_question_map[b],
                               LAMBDA id : id \in DOMAIN active)]
    IN [engine EXCEPT
          !.active_inquiries = active,
          !.seed_question_map = DictDel(@, {seed_id}),
          !.beat_question_map = DictDel(beats, {b \in DOMAIN beats : beats[b] = <<>>})]

\* the seeds, beats and contexts the engine is called with, and how many
\* exploration paths an answer opens
SeedIds == {"seed_1", "seed_2"}
BeatIds == {"beat_1"}
Contexts == {{"character"}, {"character", "action"}}
AnswerPaths == {0, 1}

EngineInit == rie = NewEngine

\* rie.generate_inquiry(seed_id, beat_id, context)
GenerateInquiry(seed_id, beat_id, context) ==
    /\ rie.on
    /\ rie.inquiry_counter < MaxInquiries
    /\ \E t \in UsableTemplates(context, "None") :
          rie' = [RegisterInquiry(rie, seed_id, beat_id, context, t)
                    EXCEPT !.op = <<"generate_inquiry", seed_id>>]
    /\ UNCHANGED <<passVars, sessions, gate, guard, scan, extractor>>

\* rie.generate_followup_inquiry(parent_inquiry_id, answer)
GenerateFollowupInquiry(parent_inquiry_id, answer_paths) ==
    /\ rie.on
    /\ parent_inquiry_id \in DOMAIN rie.active_inquiries
    /\ LET ref == rie.active_inquiries[parent_inquiry_id]
           \* exploration_paths is read through [-3:] alone: its length up to 3
           answered == [rie EXCEPT !.objects[ref].exploration_paths =
                                      Min(3, @ + answer_paths)]
           paths == answered.objects[ref].exploration_paths
       IN /\ rie.inquiry_counter + paths <= MaxInquiries
          /\ \E engine \in FollowupLoop(answered, parent_inquiry_id, paths, 0) :
                rie' = [engine EXCEPT
                          !.op = <<"generate_followup_inquiry", parent_inquiry_id>>]
    /\ UNCHANGED <<passVars, sessions, gate, guard, scan, extractor>>

\* rie.reset_seed_inquiries(seed_id)
ResetSeedInquiries(seed_id) ==
    /\ rie.on
    /\ rie' = [ResetSeed(rie, seed_id) EXCEPT !.op = <<"reset_seed_inquiries", seed_id>>]
    /\ UNCHANGED <<passVars, sessions, gate, guard, scan, extractor>>

NextEngine ==
    \/ \E seed_id \in SeedIds, beat_id \in BeatIds, context \in Contexts :
          GenerateInquiry(seed_id, beat_id, context)
    \/ \E parent_inquiry_id \in DOMAIN rie.active_inquiries, answer_paths \in AnswerPaths :
          GenerateFollowupInquiry(parent_inquiry_id, answer_paths)
    \/ \E seed_id \in SeedIds : ResetSeedInquiries(seed_id)

InitEngine == PassIdle /\ GateIdle /\ GuardIdle /\ ScanIdle /\ ExtractorIdle
    /\ SessionsIdle /\ EngineInit

SpecEngine == InitEngine /\ [][NextEngine]_vars

\* the active inquiries that carry the seed id
ActiveOfSeed(engine, seed_id) ==
    {id \in DOMAIN engine.active_inquiries :
        engine.objects[engine.active_inquiries[id]].seed_id = seed_id}

\* C25: after reset_seed_inquiries(seed) get_seed_inquiries(seed) is empty
\* and no active inquiry, follow-ups included, carries the seed id, while
\* get_seed_inquiries of every other seed returns what it returned before.
C25_ResetRemovesTheSeed ==
    [][(rie.on /\ rie'.op[1] = "reset_seed_inquiries" /\ rie' # rie) =>
         /\ GetSeedInquiries(rie', rie'.op[2]) = <<>>
         /\ ActiveOfSeed(rie', rie'.op[2]) = {}
         /\ \A other \in SeedIds \ {rie'.op[2]} :
               GetSeedInquiries(rie', other) = GetSeedInquiries(rie, other)]_vars

-----------------------------------------------------------------------------
(* Claims about the budget and the scores of a pass *)

\* the remaining budget over all gates
TotalBudget(gates) == SumSeq([i \in 1..Len(GateOrder) |-> gates[GateOrder[i]]])

\* the sum of the ceilings of the five gates, written out
CeilingSum == 5 + 10 + 8 + 12 + 15

LowestScore == 500 - 50

\* the scores of the candidates of every length up to 200, every proposed
\* depth from -1 to 7, with and without obligations, at every sampled health
\* and without a scanner
ScoreSweep ==
    { CalculateExpansionQuality(
          [CandShallow EXCEPT !.content.len = l, !.proposed_depth = d,
                              !.obligations_addressed = o], h) :
        l \in 0..200, d \in (-1)..7, o \in {<<>>, <<"decide">>},
        h \in HealthSamples \cup {-1} }
ScoreSweepFromSurface ==
    { CalculateExpansionQuality(
          [CandShallow EXCEPT !.content.len = l, !.proposed_depth = d,
                              !.obligations_addressed = o], h) :
        l \in 0..200, d \in 0..7, o \in {<<>>, <<"decide">>},
        h \in HealthSamples \cup {-1} }

\* the mean of the last five recorded averages is below 0.3
LastFiveBelowThreshold ==
    /\ Len(recursion_state.quality_trend) >= 5
    /\ SumSeq(LastN(recursion_state.quality_trend, 5)) * 10 < 3 * 5 * AvgScale

-----------------------------------------------------------------------------
(* A second session on the same orchestrator, beside a new orchestrator *)

\* the longest pass of an orchestrator that is initialised again
MaxAgainIter == 3

\* initialize_growth_session on the orchestrator s: new gates and a new
\* RecursionState; growth_metrics is not assigned
InitializeSession(s) ==
    [s EXCEPT !.pc = "idle",
              !.zc_gates = [g \in Gates |-> InitialBudget(g)],
              !.recursion_state =
                  FreshState(SumSeq([i \in 1..Len(GateOrder) |->
                                       InitialBudget(GateOrder[i])]))]

\* what the candidate source proposes to these orchestrators
AgainProposals == {"empty", "faint", "good"}

\* orchestrator 1 will run a pass and be initialised again; orchestrator 2
\* is constructed and initialised when that is done. stage tells how far
\* this has gone: the earlier pass, initialised again, the next pass
AgainInit ==
    sessions = [on |-> TRUE,
                s |-> [i \in 1..2 |-> NewSession],
                stage |-> "earlier"]

\* the earlier session: execute_growth_pass is called on orchestrator 1
EarlierStart(n) ==
    /\ sessions.on
    /\ sessions.stage = "earlier"
    /\ sessions.s[1].pc = "idle"
    /\ sessions' = [sessions EXCEPT !.s[1] = SessionStart(@, n)]
    /\ UNCHANGED <<passVars, rie, gate, guard, scan, extractor>>

\* the earlier session: one turn of the loop of orchestrator 1
EarlierTurn(proposal, elapsed) ==
    /\ sessions.on
    /\ sessions.stage = "earlier"
    /\ sessions.s[1].pc = "loop"
    /\ sessions' = [sessions EXCEPT
                      !.s[1] = SessionTurn(@, PassGenome, Batch(proposal), elapsed)]
    /\ UNCHANGED <<passVars, rie, gate, guard, scan, extractor>>

\* initialize_growth_session is called on orchestrator 1 after its pass
InitializeAgain ==
    /\ sessions.on
    /\ sessions.stage = "earlier"
    /\ sessions.s[1].pc = "returned"
    /\ sessions' = [sessions EXCEPT !.s[1] = InitializeSession(@),
                                    !.stage = "initialised"]
    /\ UNCHANGED <<passVars, rie, gate, guard, scan, extractor>>

\* execute_growth_pass is called on both orchestrators with the same
\* max_iterations
NextStart(n) ==
    /\ sessions.on
    /\ sessions.stage = "initialised"
    /\ sessions' = [sessions EXCEPT
                      !.s = [i \in 1..2 |-> SessionStart(sessions.s[i], n)],
                      !.stage = "next"]
    /\ UNCHANGED <<passVars, rie, gate, guard, scan, extractor>>

\* both orchestrators run one turn of the loop on the same answer of the
\* candidate source; one that has returned stays as it is
NextTurn(proposal, elapsed) ==
    /\ sessions.on
    /\ sessions.stage = "next"
    /\ \E i \in 1..2 : sessions.s[i].pc = "loop"
    /\ sessions' = [sessions EXCEPT
                      !.s = [i \in 1..2 |->
                               IF sessions.s[i].pc = "loop"
                               THEN SessionTurn(sessions.s[i], PassGenome,
                                                Batch(proposal), elapsed)
                               ELSE sessions.s[i]]]
    /\ UNCHANGED <<passVars, rie, gate, guard, scan, extractor>>

NextAgain ==
    \/ \E n \in 1..MaxAgainIter : EarlierStart(n)
    \/ \E proposal \in AgainProposals, elapsed \in BOOLEAN :
          EarlierTurn(proposal, elapsed)
    \/ InitializeAgain
    \/ \E n \in 1..MaxAgainIter : NextStart(n)
    \/ \E proposal \in AgainProposals, elapsed \in BOOLEAN :
          NextTurn(proposal, elapsed)

InitAgain == PassIdle /\ GateIdle /\ GuardIdle /\ ScanIdle /\ ExtractorIdle
    /\ AgainInit /\ RieIdle

SpecAgain == InitAgain /\ [][NextAgain]_vars

-----------------------------------------------------------------------------
(* Claims about a second session *)

\* C28: after initialize_growth_session on an orchestrator that has run a
\* pass, the next pass goes as on a new orchestrator given the same
\* candidate source: between two iterations both are in the same phase, and
\* at any time the same budgets are left in every gate (the same gates were
\* selected) and the same texts are accepted.
C28_SecondPassAsFresh ==
    (sessions.on /\ sessions.stage = "next") =>
        /\ (\A i \in 1..2 : sessions.s[i].pc = "loop") =>
               sessions.s[1].recursion_state.current_phase =
                   sessions.s[2].recursion_state.current_phase
        /\ sessions.s[1].zc_gates = sessions.s[2].zc_gates
        /\ sessions.s[1].expansions = sessions.s[2].expansions

-----------------------------------------------------------------------------
(* Claims about the start of a pass *)

\* execute_growth_pass is called: the step that leaves the idle orchestrator
PassCalled == pc = "idle" /\ pc' # "idle"

\* C29: with the elegance modules present the payoff-opportunity check made
\* before the loop only reads state: the call gets to its loop, as it does
\* without the modules, with the gates, the recursion state and the metrics
\* as they were.
C29_PayoffCheckOnlyReads ==
    [][(PassCalled /\ env.elegance) =>
          /\ pc' = "loop"
          /\ UNCHANGED <<zc_gates, recursion_state, growth_metrics>>]_vars

\* initialize_growth_session was never called: the orchestrator has no gates
NeverInitialised == zc_gates = <<>>

\* C30: execute_growth_pass on an orchestrator on which
\* initialize_growth_session was never called requests no candidates and
\* returns an empty list after zero iterations with saturation detected,
\* whatever max_iterations is.
C30_UninitialisedPassSaturates ==
    (NeverInitialised /\ pc \notin {"off", "idle"}) =>
        /\ pc \in {"loop", "returned"}
        /\ iteration = 0
        /\ expansions = <<>>
        /\ last.step # "executed"
        /\ pc = "returned" => recursion_state.saturation_detected

=============================================================================
